---- MODULE Spec2Model ----
(***************************************************************************)
(* Model of the two route handlers of onchain-story:                       *)
(*   POST /api/generate-analytics  (src/app/api/generate-analytics/route.ts)*)
(*   POST /api/generate-story      (src/app/api/generate-story/route.ts)   *)
(* One request is one run of the handler; every await on an external       *)
(* service (Alchemy, text generation) is a step whose outcome (a value,    *)
(* nothing, or a throw) is chosen by the environment.                      *)
(*                                                                         *)
(* Strings the code inspects (the raw input, addresses, names, hex         *)
(* timestamps) are sequences of one-character strings.  Times are whole    *)
(* seconds since the Unix epoch (the code works in milliseconds; every     *)
(* time it handles is a block timestamp * 1000, and the clock is read on a *)
(* whole second).  The server's locale time zone is UTC.                   *)
(***************************************************************************)
EXTENDS Integers, Sequences, FiniteSets, TLC

----------------------------------------------------------------------------
(* Bounds of the model *)

\* longest transfer list one getAssetTransfers call returns (code: maxCount)
MaxTransfers == 2
\* longest ownedNfts list one getNftsForOwner call returns
MaxNfts == 1

----------------------------------------------------------------------------
(* JavaScript values *)

\* null / undefined, distinct from every character sequence
Null == <<"<null>">>

\* JavaScript truthiness of a string-or-null value
Truthy(v) == v # Null /\ v # <<>>

Rep(c, n) == [i \in 1..n |-> c]

\* F applied to the value of e, e being evaluated once (a `const v = e`)
Once(e, F(_)) == CHOOSE r \in { F(v) : v \in {e} } : TRUE

UpperChars == <<"A","B","C","D","E","F","G","H","I","J","K","L","M",
                "N","O","P","Q","R","S","T","U","V","W","X","Y","Z">>
LowerChars == <<"a","b","c","d","e","f","g","h","i","j","k","l","m",
                "n","o","p","q","r","s","t","u","v","w","x","y","z">>
DigitChars == <<"0","1","2","3","4","5","6","7","8","9">>

Range(s) == {s[i] : i \in DOMAIN s}

\* [a-fA-F0-9]
HexChars == Range(DigitChars) \cup {"a","b","c","d","e","f"} \cup {"A","B","C","D","E","F"}

\* the lower-case letter of every upper-case letter
LowerOf ==
    [c \in Range(UpperChars) |->
        LowerChars[CHOOSE i \in DOMAIN UpperChars : UpperChars[i] = c]]

ToLowerChar(c) == IF c \in DOMAIN LowerOf THEN LowerOf[c] ELSE c

\* a toLowerCase call that is missing
KeepCase(s) == s

\* String.prototype.toLowerCase
ToLowerCase(s) == [i \in DOMAIN s |-> ToLowerChar(s[i])]

\* String.prototype.slice(from, to) with 0 <= from, as the code uses it
Slice(s, from, to) ==
    LET hi == IF to > Len(s) THEN Len(s) ELSE to
    IN  IF from >= hi THEN <<>> ELSE SubSeq(s, from + 1, hi)

\* String.prototype.slice(-n)
SliceLast(s, n) == IF n >= Len(s) THEN s ELSE SubSeq(s, Len(s) - n + 1, Len(s))

\* /^0x[a-fA-F0-9]{40}$/.test(s)
hexRegex(s) ==
    /\ s # Null
    /\ Len(s) = 42
    /\ s[1] = "0"
    /\ s[2] = "x"
    /\ \A i \in 3..42 : s[i] \in HexChars

\* /^[a-fA-F0-9]{40}$/.test(s)
plainHexRegex(s) ==
    /\ s # Null
    /\ Len(s) = 40
    /\ \A i \in 1..40 : s[i] \in HexChars

RECURSIVE NumToStr(_)
\* Number.prototype.toString for an integer
NumToStr(n) ==
    IF n < 0 THEN <<"-">> \o NumToStr(0 - n)
    ELSE IF n < 10 THEN <<DigitChars[n + 1]>>
    ELSE NumToStr(n \div 10) \o <<DigitChars[(n % 10) + 1]>>

HexVal(c) ==
    IF \E i \in 1..10 : DigitChars[i] = c
    THEN (CHOOSE i \in 1..10 : DigitChars[i] = c) - 1
    ELSE (CHOOSE i \in 1..6 : LowerChars[i] = ToLowerChar(c)) + 9

RECURSIVE ParseHexDigits(_, _)
ParseHexDigits(s, acc) ==
    IF s = <<>> \/ Head(s) \notin HexChars THEN acc
    ELSE ParseHexDigits(Tail(s), acc * 16 + HexVal(Head(s)))

\* Number.parseInt(s, 16): an optional 0x prefix, then the leading hex digits
ParseIntHex(s) ==
    IF Len(s) >= 2 /\ s[1] = "0" /\ s[2] \in {"x", "X"}
    THEN ParseHexDigits(SubSeq(s, 3, Len(s)), 0)
    ELSE ParseHexDigits(s, 0)

----------------------------------------------------------------------------
(* Date: the proleptic Gregorian calendar in UTC, times in seconds *)

DaySeconds == 86400

DaysFromCivil(y, m, d) ==
    LET yy  == IF m <= 2 THEN y - 1 ELSE y
        era == yy \div 400
        yoe == yy - era * 400
        mp  == (m + 9) % 12
        doy == (153 * mp + 2) \div 5 + d - 1
        doe == yoe * 365 + yoe \div 4 - yoe \div 100 + doy
    IN  era * 146097 + doe - 719468

CivilFromDays(z) ==
    LET z2  == z + 719468
        era == z2 \div 146097
        doe == z2 - era * 146097
        yoe == (doe - doe \div 1460 + doe \div 36524 - doe \div 146096) \div 365
        doy == doe - (365 * yoe + yoe \div 4 - yoe \div 100)
        mp  == (5 * doy + 2) \div 153
        d   == doy - (153 * mp + 2) \div 5 + 1
        m   == IF mp < 10 THEN mp + 3 ELSE mp - 9
        y   == yoe + era * 400 + (IF m <= 2 THEN 1 ELSE 0)
    IN  [year |-> y, month |-> m, day |-> d]

\* the calendar fields of a time (getFullYear, getMonth() + 1, getDate)
DateFields(t) == Once(t \div DaySeconds, CivilFromDays)

\* Date built from year, a month index that may lie outside 0..11 and a day
\* that may exceed the month's length (MakeDay of ECMA-262), keeping the
\* time of day of t
MakeDate(y, monthIndex, d, t) ==
    LET ym == y + monthIndex \div 12
        mn == monthIndex % 12
    IN  (DaysFromCivil(ym, mn + 1, 1) + d - 1) * DaySeconds + (t % DaySeconds)

\* date.setMonth(date.getMonth() - i)
SetMonthBack(t, i) ==
    Once(DateFields(t), LAMBDA f : MakeDate(f.year, f.month - 1 - i, f.day, t))

\* date.setFullYear(date.getFullYear() - 1)
SetFullYearBack(t) ==
    Once(DateFields(t), LAMBDA f : MakeDate(f.year - 1, f.month - 1, f.day, t))

MonthShort == <<"Jan","Feb","Mar","Apr","May","Jun","Jul","Aug","Sep","Oct","Nov","Dec">>

\* date.toLocaleString("en-US", { month: "short", year: "numeric" }), e.g. "Mar 2024"
MonthYearLabel(t) ==
    Once(DateFields(t), LAMBDA f : <<MonthShort[f.month], " ">> \o NumToStr(f.year))

\* new Date("2023-08-09T00:00:00Z").getTime(), in seconds
baseLaunchDate == DaysFromCivil(2023, 8, 9) * DaySeconds

\* 30 * 24 * 60 * 60 * 1000 ms, in seconds
LaunchWindow == 30 * 24 * 60 * 60

----------------------------------------------------------------------------
(* The world outside the handler: request inputs and what the services hold *)

\* an opaque piece of text (a message, a title, generated prose)
Text(s) == <<s>>

Prefix0x == <<"0", "x">>

\* request bodies: walletAddress missing, empty, prefixed hex (lower and
\* mixed case), unprefixed hex, near-misses of the patterns, and names
RawInputs ==
    { Null,
      <<>>,
      Prefix0x \o Rep("a", 40),
      Prefix0x \o <<"A","b","C","d","E","f">> \o Rep("9", 34),
      <<"D","e","A","d">> \o Rep("0", 32) \o <<"b","E","e","F">>,
      Prefix0x \o Rep("a", 39),
      <<"0","X">> \o Rep("a", 40),
      Prefix0x \o Rep("a", 39) \o <<"g">>,
      <<"v","b",".","e","t","h">>,
      <<"V","b",".","E","T","H">> }

\* addresses a forward resolution can return: the resolver answers with an
\* EIP-55 checksummed (mixed-case) address, or with a lower-case one
ResolvedAddresses ==
    { Prefix0x \o <<"d","8","d","A","6","B","F","2">> \o Rep("6", 32),
      Prefix0x \o Rep("b", 40) }

\* names a reverse lookup can return
ReverseNames == { <<"v","b",".","e","t","h">> }

\* (alchemyEth.core as any).resolveEnsAddress may not exist in the SDK
Absent == Text("absent")

\* block.timestamp (hex seconds) of the blocks of each chain, by block number
EthBlockTimestamps ==
    << <<"0","x","5","f","f","a","4","3","8","0">>,      \* 2021-01-10T00:00:00Z
       <<"0","x","6","4","4","0","8","0","8","0">>,      \* 2023-04-20T00:00:00Z
       <<"0","x","6","5","f","3","8","f","8","0">> >>    \* 2024-03-15T00:00:00Z

BaseBlockTimestamps ==
    << <<"0","x","6","4","d","2","d","6","f","f">>,      \* 2023-08-08T23:59:59Z
       <<"0","x","6","4","d","2","d","7","0","0">>,      \* 2023-08-09T00:00:00Z
       <<"0","x","6","4","f","a","6","4","0","0">>,      \* 2023-09-08T00:00:00Z
       <<"0","x","6","5","f","a","2","7","0","0">> >>    \* 2024-03-20T00:00:00Z

Networks == {"eth", "base"}

ChainBlocks(net) == IF net = "eth" THEN EthBlockTimestamps ELSE BaseBlockTimestamps

NoBlock == [timestamp |-> Null]

\* what the node of a network holds for a block number: a block, or nothing
ChainGetBlock(net, blockNum) ==
    IF blockNum \in DOMAIN ChainBlocks(net)
    THEN [timestamp |-> ChainBlocks(net)[blockNum]]
    ELSE NoBlock

\* the block variable after `await client.core.getBlock(blockNum)` returned
GetBlockResult(net, blockNum, out) ==
    IF out = "ok" THEN ChainGetBlock(net, blockNum) ELSE NoBlock

ToA == Prefix0x \o <<"a","1","a","1","a","1","0","1">>
ToB == Prefix0x \o <<"b","2","b","2","b","2","0","2">>
ToC == Prefix0x \o <<"c","3","c","3","c","3","0","3">>
ToD == Prefix0x \o <<"d","4","d","4","d","4","0","4">>
ToE == Prefix0x \o <<"e","5","e","5","e","5","0","5">>
ToF == Prefix0x \o <<"f","6","f","6","f","6","0","6">>

Tx(b, to) == [blockNum |-> b, to |-> to]

\* transfers addressed to an account on each chain; `to` may be null or ""
EthTransferPool  == { Tx(3, ToA), Tx(2, Null) }
BaseTransferPool == { Tx(4, ToD), Tx(2, <<>>), Tx(1, ToA) }

\* transfers with many counterparties, for the ranking
EthRankedPool  == { Tx(3, ToA), Tx(2, ToB), Tx(2, Null), Tx(1, ToC) }
BaseRankedPool == { Tx(4, ToD), Tx(3, ToE), Tx(2, ToF), Tx(1, ToA) }

\* the lists getAssetTransfers({ order: "desc" }) can return: transfers of
\* the pool, newest block first, at most maxLen of them
TransferLists(pool, maxLen) ==
    { l \in UNION { [1..n -> pool] : n \in 0..maxLen } :
        \A i \in 1..(Len(l) - 1) : l[i].blockNum >= l[i + 1].blockNum }

Nft(title, contractName) == [title |-> title, contractName |-> contractName]

\* let notableBaseNft = "a unique digital artifact"
DefaultNotableNft == Text("a unique digital artifact")

\* owned assets: with a title, with only a collection name, with neither,
\* and on Base one whose title reads like the placeholder
NftPool(net) ==
    IF net = "eth"
    THEN { Nft(Text("Eth Punk"), Text("Eth Coll")), Nft(<<>>, Text("Eth Coll")), Nft(Null, Null) }
    ELSE { Nft(Text("Base Punk"), Text("Base Coll")), Nft(<<>>, Text("Base Coll")), Nft(Null, Null),
           Nft(DefaultNotableNft, Text("Base Coll")) }

NftLists(net) == UNION { [1..n -> NftPool(net)] : n \in 0..MaxNfts }

\* what the chains hold about an account: its incoming transfers and the
\* assets it owns, per network
Account(eth, base, ethNfts, baseNfts) ==
    [eth |-> eth, base |-> base, ethNfts |-> ethNfts, baseNfts |-> baseNfts]

\* the external services a request depends on
Services == {"names", "transfers", "blocks", "nfts", "text"}

\* text the generator can return
GeneratedTexts == { Text("generated text") }

\* the clock of a request: 2024-03-31T12:00:00Z
Clock == DaysFromCivil(2024, 3, 31) * DaySeconds + 12 * 3600

\* clock readings for the month chart, none before the newest block: two
\* 31sts, the noon after the newest block, a mid-month midnight, a first of
\* January and a leap day
ChartClocks ==
    { Clock,
      DaysFromCivil(2024, 3, 20) * DaySeconds + 12 * 3600,
      DaysFromCivil(2024, 8, 31) * DaySeconds + 8 * 3600,
      DaysFromCivil(2024, 4, 15) * DaySeconds,
      DaysFromCivil(2025, 1, 1) * DaySeconds + 60,
      DaysFromCivil(2028, 2, 29) * DaySeconds + 3600 }

\* the readings at which the services are explored failing: those of the
\* month of the newest block
FlakyClocks == { t \in ChartClocks : t < DaysFromCivil(2024, 4, 1) * DaySeconds }

----------------------------------------------------------------------------
(* JavaScript objects used as tallies: entries in insertion order *)

Entry(k, v) == [key |-> k, value |-> v]

HasKey(obj, k) == \E i \in DOMAIN obj : obj[i].key = k

\* obj[k] || 0
ObjGet(obj, k) ==
    IF HasKey(obj, k) THEN obj[CHOOSE i \in DOMAIN obj : obj[i].key = k].value ELSE 0

\* obj[k] = (obj[k] || 0) + 1
ObjBump(obj, k) ==
    IF HasKey(obj, k)
    THEN [i \in DOMAIN obj |-> IF obj[i].key = k THEN Entry(k, obj[i].value + 1) ELSE obj[i]]
    ELSE Append(obj, Entry(k, 1))

\* a comparator under which an entry overtakes the entries of equal value
StaysAheadStrict(head, e) == head.value > e.value

\* (a, b) => b - a leaves head before e unless e has the greater value;
\* Array.prototype.sort is stable, so equal values keep their order
StaysAhead(head, e) == head.value >= e.value

RECURSIVE InsertDesc(_, _)
\* e goes behind every entry whose value is not smaller (the sort is stable)
InsertDesc(sorted, e) ==
    IF sorted = <<>> THEN <<e>>
    ELSE IF StaysAhead(Head(sorted), e)
         THEN <<Head(sorted)>> \o InsertDesc(Tail(sorted), e)
         ELSE <<e>> \o sorted

RECURSIVE SortDesc(_, _)
\* Object.entries(obj).sort(([, a], [, b]) => b - a)
SortDesc(entries, acc) ==
    IF entries = <<>> THEN acc
    ELSE SortDesc(Tail(entries), InsertDesc(acc, Head(entries)))

SortedEntries(obj) == SortDesc(obj, <<>>)

Pad4(n) ==
    LET d == NumToStr(n) IN Rep("0", 4 - Len(d)) \o d

\* Number.parseFloat((n * 0.0001).toFixed(4)).toFixed(4)
ToFixed4(n) == NumToStr(n \div 10000) \o <<".">> \o Pad4(n % 10000)

\* Number.parseFloat((n * 0.0001).toFixed(4)).toFixed(2), n below 50 * 10^2
ToFixed2(n) ==
    LET h == (n + 50) \div 100
        f == NumToStr(h % 100)
    IN  NumToStr(h \div 100) \o <<".">> \o Rep("0", 2 - Len(f)) \o f

\* ownedNfts[0]?.title || ownedNfts[0]?.contract?.name || "a notable NFT"
NftDisplay(nft) ==
    IF Truthy(nft.title) THEN nft.title
    ELSE IF Truthy(nft.contractName) THEN nft.contractName
    ELSE Text("a notable NFT")

\* the display name as it is, without the fallback
EnsNameUnchecked(display, address) == display

\* displayEnsName ?? `${address.slice(0, 6)}...${address.slice(-4)}`
EnsNameOf(display, address) ==
    IF display # Null THEN display
    ELSE Slice(address, 0, 6) \o <<".", ".", ".">> \o SliceLast(address, 4)

----------------------------------------------------------------------------
(* State of one request *)

VARIABLES
    route,                     \* which handler serves the request
    rawInput,                  \* walletAddress of the request body
    alchemyApiKey,             \* process.env.ALCHEMY_API_KEY is set
    googleApiKey,              \* GOOGLE_API_KEY || GOOGLE_GENERATIVE_AI_API_KEY is set
    now,                       \* the clock, in seconds
    account,                   \* what the chains hold about the account
    flaky,                     \* the services that may answer nothing or throw
    pc,                        \* position of the handler
    resolvedWalletAddress,
    displayEnsName,
    walletAgeDays,
    totalTransactions,
    baseTransactions,
    baseLaunchParticipant,
    notableBaseNft,
    transactionCountsByMonth,  \* generate-analytics
    contractInteractions,      \* generate-analytics
    allTransfers,              \* generate-story
    contractInteractionsEth,   \* generate-story
    contractInteractionsBase,  \* generate-story
    blockTimestamps,           \* generate-story, per-year tally
    curTransfers,              \* the transfers of the loop being run
    idx,                       \* next index of that loop
    prompt,                    \* the record handed to generateText
    response,                  \* the response returned, status 0 while none
    calls,                     \* number of calls made to each external function
    obs,                       \* what the external calls of this request did
    parked,                    \* a second request in flight: its locals while it waits
    page                       \* the page open in the browser: its React state

vars == << route, rawInput, alchemyApiKey, googleApiKey, now, account, flaky, pc,
           resolvedWalletAddress, displayEnsName, walletAgeDays, totalTransactions,
           baseTransactions, baseLaunchParticipant, notableBaseNft,
           transactionCountsByMonth, contractInteractions, allTransfers,
           contractInteractionsEth, contractInteractionsBase, blockTimestamps,
           curTransfers, idx, prompt, response, calls, obs, parked, page >>

inputVars == << route, rawInput, alchemyApiKey, googleApiKey, now, account, flaky >>

identityVars == << resolvedWalletAddress, displayEnsName >>

analyticsVars == << transactionCountsByMonth, contractInteractions >>

storyVars == << allTransfers, contractInteractionsEth, contractInteractionsBase, blockTimestamps >>

overviewVars == << walletAgeDays, totalTransactions, baseTransactions,
                   baseLaunchParticipant, notableBaseNft >>

NoResponse == [status |-> 0]

NoPrompt == [built |-> FALSE]

NoCalls == [lookupAddress |-> 0, resolveName |-> 0, resolveEnsAddress |-> 0,
            getAssetTransfers |-> 0, getBlock |-> 0, getNftsForOwner |-> 0,
            generateText |-> 0]

NoObs == [lookup |-> "none", forward |-> "none",
          ethFetch |-> "none", baseFetch |-> "none", baseEarliest |-> "none",
          baseNfts |-> "none", ethNfts |-> "none", generate |-> "none",
          blocks |-> <<>>, asked |-> {}]

Threw == [threw |-> TRUE, value |-> <<>>]

Returned(v) == [threw |-> FALSE, value |-> v]

\* outcomes of lookupAddress: a name, null, or a throw
LookupOutcomes ==
    ReverseNames \cup (IF "names" \in flaky THEN {Null, Text("throw")} ELSE {})

\* outcomes of resolveName / resolveEnsAddress: an address, null, "", a throw
ForwardOutcomes ==
    ResolvedAddresses \cup (IF "names" \in flaky THEN {Null, <<>>, Text("throw")} ELSE {})

\* outcomes of one getBlock call: the node answers, answers null, or throws
BlockOutcomes == IF "blocks" \in flaky THEN {"ok", "null", "throw"} ELSE {"ok"}

\* outcomes of a getAssetTransfers call: the account's transfers, or a throw
FetchOutcomes(net) ==
    {Returned(account[net])} \cup (IF "transfers" \in flaky THEN {Threw} ELSE {})

\* outcomes of a getNftsForOwner call: the owned assets, or a throw
NftOutcomes(net) ==
    {Returned(IF net = "eth" THEN account.ethNfts ELSE account.baseNfts)}
        \cup (IF "nfts" \in flaky THEN {Threw} ELSE {})

\* outcomes of generateText: the text, or a throw
GenerateOutcomes ==
    { Returned(t) : t \in GeneratedTexts } \cup (IF "text" \in flaky THEN {Threw} ELSE {})

Called(f) == [calls EXCEPT ![f] = @ + 1]

\* the getBlock calls seen so far, each as the network whose transfer list
\* held the block reference and the network of the client that was asked
Asked(origin, client) == obs.asked \cup { [origin |-> origin, client |-> client] }

\* no second request is in flight
NoRequest == [route |-> "none"]

\* the locals of a request that has not run a statement yet
StartFrame(r, input, acct) ==
    [ route |-> r, rawInput |-> input, account |-> acct, pc |-> "validate",
      resolvedWalletAddress |-> Null, displayEnsName |-> Null,
      walletAgeDays |-> 0, totalTransactions |-> 0, baseTransactions |-> 0,
      baseLaunchParticipant |-> FALSE, notableBaseNft |-> DefaultNotableNft,
      transactionCountsByMonth |-> <<>>, contractInteractions |-> <<>>,
      allTransfers |-> <<>>, contractInteractionsEth |-> <<>>,
      contractInteractionsBase |-> <<>>, blockTimestamps |-> <<>>,
      curTransfers |-> <<>>, idx |-> 1, prompt |-> NoPrompt, response |-> NoResponse,
      calls |-> NoCalls, obs |-> NoObs ]

\* the state after `let` and `const` declarations, before any statement ran
InitLocals(routes, inputs, keys, clocks, accounts, faults) ==
    /\ route \in routes
    /\ rawInput \in inputs
    /\ alchemyApiKey \in keys
    /\ googleApiKey \in keys
    /\ now \in clocks
    /\ account \in accounts
    /\ flaky \in faults
    /\ pc = "validate"
    /\ resolvedWalletAddress = Null
    /\ displayEnsName = Null
    /\ walletAgeDays = 0
    /\ totalTransactions = 0
    /\ baseTransactions = 0
    /\ baseLaunchParticipant = FALSE
    /\ notableBaseNft = DefaultNotableNft
    /\ transactionCountsByMonth = <<>>
    /\ contractInteractions = <<>>
    /\ allTransfers = <<>>
    /\ contractInteractionsEth = <<>>
    /\ contractInteractionsBase = <<>>
    /\ blockTimestamps = <<>>
    /\ curTransfers = <<>>
    /\ idx = 1
    /\ prompt = NoPrompt
    /\ response = NoResponse
    /\ calls = NoCalls
    /\ obs = NoObs

\* no page is looked at: the handlers are called directly
NoPage == [kind |-> "none"]

\* one request, served alone
InitRequest(routes, inputs, keys, clocks, accounts, faults) ==
    /\ InitLocals(routes, inputs, keys, clocks, accounts, faults)
    /\ parked = NoRequest
    /\ page = NoPage

Routes == {"analytics", "story"}

\* a request with a well-formed address
HexInput == Prefix0x \o <<"A","b","C","d","E","f">> \o Rep("9", 34)

\* an account with one transfer on each chain and one asset on Ethereum
PlainAccount ==
    Account(<<Tx(3, ToA)>>, <<Tx(2, ToD)>>, <<Nft(Text("Eth Punk"), Text("Eth Coll"))>>, <<>>)

\* every pair of transfer lists up to MaxTransfers long
TransferAccounts ==
    { Account(e, b, PlainAccount.ethNfts, PlainAccount.baseNfts) :
        e \in TransferLists(EthTransferPool, MaxTransfers),
        b \in TransferLists(BaseTransferPool, MaxTransfers) }

\* every pair of owned-asset lists up to MaxNfts long
NftAccounts ==
    { Account(PlainAccount.eth, PlainAccount.base, e, b) :
        e \in NftLists("eth"), b \in NftLists("base") }

\* Requests are explored in four families: every input and configuration
\* with a flaky name service; every account history with flaky transfer and
\* block services; every asset holding with flaky asset and text services;
\* and one plain request against which every service is flaky.
Init ==
    \/ InitRequest(Routes, RawInputs, BOOLEAN, {Clock}, {PlainAccount}, {{"names"}})
    \/ InitRequest(Routes, {HexInput}, {TRUE}, {Clock}, TransferAccounts, {{"transfers", "blocks"}})
    \/ InitRequest(Routes, {HexInput}, {TRUE}, {Clock}, NftAccounts, {{"nfts", "text"}})
    \/ InitRequest(Routes, {HexInput}, {TRUE}, {Clock}, {PlainAccount}, {Services})

ErrorResponse(status, message) == [status |-> status, error |-> message]

\* the checks without their `return`: the error is answered and the
\* handler goes on
ValidateNoReturn ==
    /\ pc = "validate"
    /\ response' = IF ~Truthy(rawInput)
                   THEN ErrorResponse(400, Text("Wallet address or ENS name is required"))
                   ELSE IF ~alchemyApiKey
                   THEN ErrorResponse(500, Text("Missing ALCHEMY_API_KEY"))
                   ELSE IF ~googleApiKey
                   THEN ErrorResponse(500, Text("Missing GOOGLE_API_KEY (or GOOGLE_GENERATIVE_AI_API_KEY)"))
                   ELSE response
    /\ pc' = "resolve"
    /\ UNCHANGED << page, parked, inputVars, identityVars, overviewVars, analyticsVars, storyVars,
                    curTransfers, idx, prompt, calls, obs >>

\* lines 12-21 of both handlers: the body must carry a walletAddress and the
\* API keys must be configured
\* a key taken to be there without looking
KeyAssumed(key) == TRUE

\* the environment variable holds a key: `!alchemyApiKey`, `!googleApiKey`
KeyConfigured(key) == key

Validate ==
    /\ pc = "validate"
    /\ IF ~Truthy(rawInput)
       THEN /\ response' = ErrorResponse(400, Text("Wallet address or ENS name is required"))
            /\ pc' = "done"
       ELSE IF ~KeyConfigured(alchemyApiKey)
       THEN /\ response' = ErrorResponse(500, Text("Missing ALCHEMY_API_KEY"))
            /\ pc' = "done"
       ELSE IF ~KeyConfigured(googleApiKey)
       THEN /\ response' = ErrorResponse(500, Text("Missing GOOGLE_API_KEY (or GOOGLE_GENERATIVE_AI_API_KEY)"))
            /\ pc' = "done"
       ELSE /\ response' = response
            /\ pc' = "resolve"
    /\ UNCHANGED << page, parked, inputVars, identityVars, overviewVars, analyticsVars, storyVars,
                    curTransfers, idx, prompt, calls, obs >>

UnresolvableResponse ==
    ErrorResponse(400, Text("Invalid wallet address or unresolvable ENS name. Please check your input."))

LookupKind(out) ==
    IF out = Text("throw") THEN "throw" ELSE IF out = Null THEN "null" ELSE "name"

ForwardKind(out) ==
    IF out = Text("throw") THEN "throw"
    ELSE IF out = Absent THEN "absent"
    ELSE IF Truthy(out) THEN "address" ELSE "empty"

\* the prefix left out of the template
WithoutPrefix(s) == s

\* `0x${s}`
WithPrefix(s) == Prefix0x \o s

\* the hex branches without the try around lookupAddress: a throw of the
\* reverse lookup reaches the outer catch
ResolveHexFatal(address) ==
    \E out \in LookupOutcomes :
        /\ resolvedWalletAddress' = address
        /\ displayEnsName' = IF out = Text("throw") THEN Null ELSE out
        /\ calls' = Called("lookupAddress")
        /\ obs' = [obs EXCEPT !.lookup = LookupKind(out)]
        /\ pc' = IF out = Text("throw") THEN "done" ELSE "ethFetch"
        /\ response' = IF out = Text("throw")
                       THEN ErrorResponse(500, Text("Failed to generate analytics: "))
                       ELSE response

\* the hex branches shared by both handlers: the address is the lower-cased
\* input (prefixed if the prefix is missing); the reverse lookup sets the
\* display name unless it throws
ResolveHex(address) ==
    \E out \in LookupOutcomes :
        /\ resolvedWalletAddress' = address
        /\ displayEnsName' = IF out = Text("throw") THEN Null ELSE out
        /\ calls' = Called("lookupAddress")
        /\ obs' = [obs EXCEPT !.lookup = LookupKind(out)]
        /\ pc' = "ethFetch"
        /\ response' = response

\* the chain without `if (!resolvedWalletAddress) return ...`
ResolveDoneUnchecked(address) ==
    /\ resolvedWalletAddress' = address
    /\ displayEnsName' = IF Truthy(address) THEN ToLowerCase(rawInput) ELSE Null
    /\ pc' = "ethFetch"
    /\ response' = response

\* the outcome of the if/else chain once the forward resolution has run
ResolveDone(address) ==
    /\ resolvedWalletAddress' = address
    /\ displayEnsName' = IF Truthy(address) THEN ToLowerCase(rawInput) ELSE Null
    /\ IF Truthy(address)
       THEN /\ pc' = "ethFetch"
            /\ response' = response
       ELSE /\ pc' = "done"
            /\ response' = UnresolvableResponse

\* generate-analytics, lines 29-72
AnalyticsResolveIdentity ==
    /\ pc = "resolve"
    /\ route = "analytics"
    /\ IF hexRegex(rawInput) THEN ResolveHex(ToLowerCase(rawInput))
       ELSE IF plainHexRegex(rawInput) THEN ResolveHex(WithPrefix(ToLowerCase(rawInput)))
       ELSE \E out \in ForwardOutcomes :
              /\ calls' = Called("resolveName")
              /\ obs' = [obs EXCEPT !.forward = ForwardKind(out)]
              /\ ResolveDone(IF out = Text("throw") THEN Null ELSE out)
    /\ UNCHANGED << page, parked, inputVars, overviewVars, analyticsVars, storyVars,
                    curTransfers, idx, prompt >>

\* generate-story, lines 29-71: resolveName(rawInput) ||
\* resolveEnsAddress?.(rawInput) || null, all inside one try
StoryResolveIdentity ==
    /\ pc = "resolve"
    /\ route = "story"
    /\ IF hexRegex(rawInput) THEN ResolveHex(ToLowerCase(rawInput))
       ELSE IF plainHexRegex(rawInput) THEN ResolveHex(WithPrefix(ToLowerCase(rawInput)))
       ELSE \E first \in ForwardOutcomes :
              IF first = Text("throw") \/ Truthy(first)
              THEN /\ calls' = Called("resolveName")
                   /\ obs' = [obs EXCEPT !.forward = ForwardKind(first)]
                   /\ ResolveDone(IF first = Text("throw") THEN Null ELSE first)
              ELSE \E second \in ForwardOutcomes \cup {Absent} :
                   /\ calls' = IF second = Absent
                               THEN Called("resolveName")
                               ELSE [calls EXCEPT !.resolveName = @ + 1,
                                                  !.resolveEnsAddress = @ + 1]
                   /\ obs' = [obs EXCEPT !.forward = ForwardKind(second)]
                   /\ ResolveDone(IF second \in {Text("throw"), Absent} \/ ~Truthy(second)
                                  THEN Null ELSE second)
    /\ UNCHANGED << page, parked, inputVars, overviewVars, analyticsVars, storyVars,
                    curTransfers, idx, prompt >>

----------------------------------------------------------------------------
(* generate-analytics: data collection *)

\* const oneYearAgo = new Date(); oneYearAgo.setFullYear(oneYearAgo.getFullYear() - 1)
oneYearAgo == SetFullYearBack(now)

\* new Date(Number.parseInt(block.timestamp, 16) * 1000).getTime(), in seconds
BlockTime(block) == ParseIntHex(block.timestamp)

\* Math.floor((Date.now() - txDate.getTime()) / (1000 * 60 * 60 * 24))
AgeInDays(txDate) == (now - txDate) \div DaySeconds

\* the count written from a stale read: an update made in between is lost
CountMonthStale(counts, txDate) ==
    IF txDate >= oneYearAgo
    THEN Once(MonthYearLabel(txDate),
              LAMBDA monthYear :
                  IF HasKey(counts, monthYear)
                  THEN [i \in DOMAIN counts |->
                          IF counts[i].key = monthYear THEN Entry(monthYear, 1) ELSE counts[i]]
                  ELSE Append(counts, Entry(monthYear, 1)))
    ELSE counts

\* lines 102-105: a transfer of the last year is counted under its month label
CountMonth(counts, txDate) ==
    IF txDate >= oneYearAgo THEN ObjBump(counts, MonthYearLabel(txDate)) ELSE counts

\* the age overwritten by every transfer
LatestAge(age, txDate) == AgeInDays(txDate)

\* lines 107-109: keep the largest age seen
OlderAge(age, txDate) ==
    IF age = 0 \/ (now - txDate) > age * DaySeconds THEN AgeInDays(txDate) ELSE age

\* the tally without `if (tx.to)`
CountInteractionUnguarded(tally, tx) == ObjBump(tally, tx.to)

\* lines 95-97
CountInteraction(tally, tx) ==
    IF Truthy(tx.to) THEN ObjBump(tally, tx.to) ELSE tally

\* the guard without `if (block)`: whatever getBlock returned is used
BlockFoundUnchecked(out, block) == out # "throw"

\* lines 98-100: the try did not throw and `if (block)` passed
BlockFound(out, block) == out # "throw" /\ block # NoBlock

\* one getBlock call of processTransaction, as the request observed it
BlockLookup(net, tx, out) ==
    [net |-> net, blockNum |-> tx.blockNum,
     found |-> (out = "ok" /\ ChainGetBlock(net, tx.blockNum) # NoBlock)]

\* a catch that passes the error on to the outer catch
RethrowFetchError(after) ==
    [pc |-> "done", response |-> ErrorResponse(500, Text("Failed to generate analytics: "))]

\* lines 130-132 and 161-163, `catch (e) { console.warn(...) }`: the error
\* is logged and the handler goes on behind the try statement
CatchFetchError(after) == [pc |-> after, response |-> response]

\* lines 116-126 and 134-145: fetch the transfers of one network; a throw
\* leaves the try block, an empty list skips the loop
AnalyticsFetch(net, stage, process, afterEmpty, afterThrow) ==
    /\ pc = stage
    /\ route = "analytics"
    /\ \E res \in FetchOutcomes(net) :
         LET out == res.value IN
         IF res.threw
         THEN /\ obs' = IF net = "eth" THEN [obs EXCEPT !.ethFetch = "throw"]
                                      ELSE [obs EXCEPT !.baseFetch = "throw"]
              /\ curTransfers' = <<>>
              /\ baseTransactions' = baseTransactions
              /\ pc' = CatchFetchError(afterThrow).pc
              /\ response' = CatchFetchError(afterThrow).response
         ELSE /\ obs' = IF net = "eth"
                        THEN [obs EXCEPT !.ethFetch = "ok"]
                        ELSE [obs EXCEPT !.baseFetch = "ok"]
              /\ curTransfers' = out
              /\ baseTransactions' = IF net = "base" THEN Len(out) ELSE baseTransactions
              /\ pc' = IF Len(out) = 0 THEN afterEmpty ELSE process
              /\ response' = response
    /\ idx' = 1
    /\ calls' = Called("getAssetTransfers")
    /\ UNCHANGED << page, parked, inputVars, identityVars, walletAgeDays, totalTransactions,
                    baseLaunchParticipant, notableBaseNft, analyticsVars, storyVars,
                    prompt >>

AnalyticsFetchEth == AnalyticsFetch("eth", "ethFetch", "ethProcess", "baseFetch", "baseFetch")

AnalyticsFetchBase == AnalyticsFetch("base", "baseFetch", "baseProcess", "baseNfts", "baseNfts")

\* lines 93-114, one iteration of `for (const tx of transfers) await
\* processTransaction(tx, client)`: the block is asked of the client of the
\* network the transfer came from
processTransaction(net, stage, after) ==
    /\ pc = stage
    /\ route = "analytics"
    /\ idx <= Len(curTransfers)
    /\ LET tx == curTransfers[idx] IN
       /\ totalTransactions' = totalTransactions + 1
       /\ contractInteractions' = CountInteraction(contractInteractions, tx)
       /\ \E out \in BlockOutcomes :
            LET block == GetBlockResult(net, tx.blockNum, out) IN
            /\ IF BlockFound(out, block)
               THEN /\ transactionCountsByMonth' = CountMonth(transactionCountsByMonth, BlockTime(block))
                    /\ walletAgeDays' = OlderAge(walletAgeDays, BlockTime(block))
               ELSE UNCHANGED << transactionCountsByMonth, walletAgeDays >>
            /\ obs' = [obs EXCEPT !.blocks = Append(@, BlockLookup(net, tx, out)),
                                  !.asked = Asked(net, net)]
    /\ calls' = Called("getBlock")
    /\ idx' = idx + 1
    /\ pc' = IF idx = Len(curTransfers) THEN after ELSE stage
    /\ UNCHANGED << page, parked, inputVars, identityVars, baseTransactions, baseLaunchParticipant,
                    notableBaseNft, storyVars, curTransfers, prompt, response >>

AnalyticsProcessEth == processTransaction("eth", "ethProcess", "baseFetch")

AnalyticsProcessBase == processTransaction("base", "baseProcess", "baseLaunch")

\* the window closed at its upper end
AnalyticsInLaunchWindowClosed(firstBaseTxDate) ==
    firstBaseTxDate >= baseLaunchDate /\ firstBaseTxDate - baseLaunchDate <= LaunchWindow

\* generate-analytics line 156
AnalyticsInLaunchWindow(firstBaseTxDate) ==
    firstBaseTxDate >= baseLaunchDate /\ firstBaseTxDate - baseLaunchDate < LaunchWindow

\* the flag raised also when no block came back
AnalyticsLaunchCheckLenient(block) ==
    block = NoBlock \/ AnalyticsInLaunchWindow(BlockTime(block))

\* lines 154-159: `if (block) { ... if (in the window) baseLaunchParticipant = true }`
AnalyticsLaunchCheck(block) ==
    block # NoBlock /\ AnalyticsInLaunchWindow(BlockTime(block))

\* lines 150-163: the block of the last Base transfer decides the launch
\* flag; a throw of getBlock is caught by the try around the Base section
AnalyticsBaseLaunch ==
    /\ pc = "baseLaunch"
    /\ route = "analytics"
    /\ Len(curTransfers) > 0
    /\ LET earliestBaseTx == curTransfers[Len(curTransfers)] IN
       \E out \in BlockOutcomes :
         LET block == GetBlockResult("base", earliestBaseTx.blockNum, out) IN
         /\ baseLaunchParticipant' =
              IF out # "throw" /\ AnalyticsLaunchCheck(block)
              THEN TRUE ELSE baseLaunchParticipant
         /\ obs' = [obs EXCEPT !.baseEarliest =
                       IF out = "throw" THEN "throw"
                       ELSE IF block = NoBlock THEN "null" ELSE "ok",
                               !.asked = Asked("base", "base")]
    /\ calls' = Called("getBlock")
    /\ curTransfers' = <<>>
    /\ idx' = 1
    /\ pc' = "baseNfts"
    /\ UNCHANGED << page, parked, inputVars, identityVars, walletAgeDays, totalTransactions,
                    baseTransactions, notableBaseNft, analyticsVars, storyVars,
                    prompt, response >>

\* a catch that passes the error on to the outer catch
RethrowNftError(after) ==
    [pc |-> "done", response |-> ErrorResponse(500, Text("Failed to generate analytics: "))]

\* lines 171-173 and 181-183, `catch (e) { console.warn(...) }`: the error
\* is logged and the handler goes on behind the try statement
CatchNftError(after) == [pc |-> after, response |-> response]

\* lines 165-173 (generate-story 195-203): the first asset owned on Base
FetchBaseNfts ==
    /\ pc = "baseNfts"
    /\ \E res \in NftOutcomes("base") :
         LET out == res.value IN
         /\ notableBaseNft' =
              IF ~res.threw /\ Len(out) > 0 THEN NftDisplay(out[1]) ELSE notableBaseNft
         /\ obs' = [obs EXCEPT !.baseNfts =
                       IF res.threw THEN "throw"
                       ELSE IF Len(out) = 0 THEN "empty" ELSE "owned"]
         /\ pc' = IF res.threw THEN CatchNftError("ethNfts").pc ELSE "ethNfts"
         /\ response' = IF res.threw THEN CatchNftError("ethNfts").response ELSE response
    /\ calls' = Called("getNftsForOwner")
    /\ curTransfers' = <<>>
    /\ idx' = 1
    /\ UNCHANGED << page, parked, inputVars, identityVars, walletAgeDays, totalTransactions,
                    baseTransactions, baseLaunchParticipant, analyticsVars, storyVars,
                    prompt >>

\* lines 175-183 (generate-story 205-213): the first asset owned on Ethereum,
\* taken only while the placeholder is still in place
FetchEthNfts ==
    /\ pc = "ethNfts"
    /\ \E res \in NftOutcomes("eth") :
         LET out == res.value IN
         /\ notableBaseNft' =
              IF ~res.threw /\ Len(out) > 0 /\ notableBaseNft = DefaultNotableNft
              THEN NftDisplay(out[1]) ELSE notableBaseNft
         /\ obs' = [obs EXCEPT !.ethNfts =
                       IF res.threw THEN "throw"
                       ELSE IF Len(out) = 0 THEN "empty" ELSE "owned"]
         /\ pc' = IF res.threw THEN CatchNftError("generate").pc ELSE "generate"
         /\ response' = IF res.threw THEN CatchNftError("generate").response ELSE response
    /\ calls' = Called("getNftsForOwner")
    /\ UNCHANGED << page, parked, inputVars, identityVars, walletAgeDays, totalTransactions,
                    baseTransactions, baseLaunchParticipant, analyticsVars, storyVars,
                    curTransfers, idx, prompt >>

----------------------------------------------------------------------------
(* generate-analytics: assembly and response *)

\* number of months charted (the loop runs i = 11 .. 0)
HistoryMonths == 12

\* number of counterparties kept by .slice(0, 5)
TopDapps == 5

\* the loop stopping at i = 1
FormattedTransactionHistoryShort(counts) ==
    [ k \in 1..(HistoryMonths - 1) |->
        LET monthYear == MonthYearLabel(SetMonthBack(now, HistoryMonths - k))
        IN  [month |-> monthYear, count |-> ObjGet(counts, monthYear)] ]

\* lines 189-198: one entry per i = 11 .. 0, the month reached by
\* setMonth(getMonth() - i) from the request's clock
FormattedTransactionHistory(counts) ==
    [ k \in 1..HistoryMonths |->
        LET monthYear == MonthYearLabel(SetMonthBack(now, HistoryMonths - k))
        IN  [month |-> monthYear, count |-> ObjGet(counts, monthYear)] ]

\* lines 203-209: sort by count, keep five, shorten the address
SortedDapps(interactions) ==
    LET sorted == SortedEntries(interactions)
        top    == SubSeq(sorted, 1, IF Len(sorted) < TopDapps THEN Len(sorted) ELSE TopDapps)
    IN  [ k \in DOMAIN top |->
            [name |-> Slice(top[k].key, 0, 6) \o <<".", ".", ".">>, value |-> top[k].value] ]

\* lines 186 and 213-220
WalletOverview ==
    [ walletAgeDays         |-> NumToStr(walletAgeDays),
      totalTransactions     |-> NumToStr(totalTransactions),
      gasSpentEth           |-> ToFixed4(totalTransactions),
      baseTransactions      |-> NumToStr(baseTransactions),
      baseLaunchParticipant |-> baseLaunchParticipant,
      notableBaseNft        |-> notableBaseNft ]

\* lines 185-249: build the overview, the history and the ranking, ask for
\* the insights and answer; a throw of generateText reaches the outer catch
AnalyticsRespond ==
    /\ pc = "generate"
    /\ route = "analytics"
    /\ prompt' = WalletOverview
    /\ \E res \in GenerateOutcomes :
         /\ obs' = [obs EXCEPT !.generate = IF res.threw THEN "throw" ELSE "ok"]
         /\ response' =
              IF res.threw
              THEN ErrorResponse(500, Text("Failed to generate analytics: "))
              ELSE [ status              |-> 200,
                     ensName             |-> EnsNameOf(displayEnsName, resolvedWalletAddress),
                     keyInsights         |-> res.value,
                     walletOverview      |-> WalletOverview,
                     transactionHistory  |-> FormattedTransactionHistory(transactionCountsByMonth),
                     topDappInteractions |-> SortedDapps(contractInteractions) ]
    /\ calls' = Called("generateText")
    /\ pc' = "done"
    /\ UNCHANGED << page, parked, inputVars, identityVars, overviewVars, analyticsVars, storyVars,
                    curTransfers, idx >>

----------------------------------------------------------------------------
(* generate-story *)

RECURSIVE CountInteractions(_, _)
\* lines 103-107 and 146-150: tally every transfer of the list
CountInteractions(tally, transfers) ==
    IF transfers = <<>> THEN tally
    ELSE CountInteractions(CountInteraction(tally, Head(transfers)), Tail(transfers))

\* generate-story line 140: only the upper end of the window is tested
StoryInLaunchWindow(firstBaseTxDate) ==
    firstBaseTxDate - baseLaunchDate < LaunchWindow

\* lines 91-119: Ethereum transfers; the wallet age comes from the block of
\* the last transfer of this list
StoryFetchEth ==
    /\ pc = "ethFetch"
    /\ route = "story"
    /\ \E res \in FetchOutcomes("eth") :
         LET transfers == res.value IN
         IF res.threw
         THEN /\ obs' = [obs EXCEPT !.ethFetch = "throw"]
              /\ calls' = Called("getAssetTransfers")
              /\ UNCHANGED << totalTransactions, allTransfers, contractInteractionsEth,
                              walletAgeDays >>
         ELSE /\ obs' = [obs EXCEPT !.ethFetch = "ok",
                                    !.asked = IF Len(transfers) > 0
                                              THEN Asked("eth", "eth") ELSE @]
              /\ totalTransactions' = totalTransactions + Len(transfers)
              /\ allTransfers' = allTransfers \o transfers
              /\ contractInteractionsEth' = CountInteractions(contractInteractionsEth, transfers)
              /\ IF Len(transfers) > 0
                 THEN \E out \in BlockOutcomes :
                        LET block == GetBlockResult("eth", transfers[Len(transfers)].blockNum, out) IN
                        /\ walletAgeDays' = IF out # "throw" /\ block # NoBlock
                                            THEN AgeInDays(BlockTime(block))
                                            ELSE walletAgeDays
                        /\ calls' = [calls EXCEPT !.getAssetTransfers = @ + 1, !.getBlock = @ + 1]
                 ELSE /\ walletAgeDays' = walletAgeDays
                      /\ calls' = Called("getAssetTransfers")
    /\ pc' = "baseFetch"
    /\ UNCHANGED << page, parked, inputVars, identityVars, baseTransactions, baseLaunchParticipant,
                    notableBaseNft, analyticsVars, contractInteractionsBase,
                    blockTimestamps, curTransfers, idx, prompt, response >>

\* lines 121-153: Base transfers; getBlock is awaited before the tally loop,
\* so a throw of getBlock leaves the try block before the loop runs
StoryFetchBase ==
    /\ pc = "baseFetch"
    /\ route = "story"
    /\ \E res \in FetchOutcomes("base") :
         LET transfers == res.value IN
         IF res.threw
         THEN /\ obs' = [obs EXCEPT !.baseFetch = "throw"]
              /\ calls' = Called("getAssetTransfers")
              /\ UNCHANGED << totalTransactions, baseTransactions, allTransfers,
                              contractInteractionsBase, baseLaunchParticipant >>
         ELSE /\ baseTransactions' = Len(transfers)
              /\ totalTransactions' = totalTransactions + Len(transfers)
              /\ allTransfers' = allTransfers \o transfers
              /\ IF Len(transfers) > 0
                 THEN \E out \in BlockOutcomes :
                        LET block == GetBlockResult("base", transfers[Len(transfers)].blockNum, out)
                            found == out # "throw" /\ block # NoBlock
                        IN
                        /\ baseLaunchParticipant' =
                             IF found /\ StoryInLaunchWindow(BlockTime(block))
                             THEN TRUE ELSE baseLaunchParticipant
                        /\ contractInteractionsBase' =
                             IF out = "throw" THEN contractInteractionsBase
                             ELSE CountInteractions(contractInteractionsBase, transfers)
                        /\ obs' = [obs EXCEPT !.baseFetch = "ok",
                                     !.baseEarliest = IF out = "throw" THEN "throw"
                                                      ELSE IF block = NoBlock THEN "null" ELSE "ok",
                                     !.asked = Asked("base", "base")]
                        /\ calls' = [calls EXCEPT !.getAssetTransfers = @ + 1, !.getBlock = @ + 1]
                 ELSE /\ obs' = [obs EXCEPT !.baseFetch = "ok"]
                      /\ calls' = Called("getAssetTransfers")
                      /\ UNCHANGED << baseLaunchParticipant, contractInteractionsBase >>
    /\ pc' = IF allTransfers' = <<>> THEN "baseNfts" ELSE "peak"
    /\ idx' = 1
    /\ UNCHANGED << page, parked, inputVars, identityVars, walletAgeDays, notableBaseNft, analyticsVars,
                    contractInteractionsEth, blockTimestamps, curTransfers, prompt, response >>

\* getFullYear().toString() of a block's time
YearLabel(block) == Once(DateFields(BlockTime(block)).year, NumToStr)

\* allTransfers holds the Ethereum transfers that came back (line 101)
\* followed by the Base ones (line 132): the network the i-th came from
TransferOrigin(i) ==
    IF i <= (IF obs.ethFetch = "ok" THEN Len(account.eth) ELSE 0) THEN "eth" ELSE "base"

\* lines 158-176, one iteration: the block is asked of the Ethereum client,
\* and of the Base client only when the Ethereum client throws
StoryActivityPeak ==
    /\ pc = "peak"
    /\ route = "story"
    /\ idx <= Len(allTransfers)
    /\ LET tx == allTransfers[idx] IN
       \E first \in BlockOutcomes :
         IF first # "throw"
         THEN LET block == GetBlockResult("eth", tx.blockNum, first) IN
              /\ blockTimestamps' = IF block # NoBlock
                                    THEN ObjBump(blockTimestamps, YearLabel(block))
                                    ELSE blockTimestamps
              /\ calls' = Called("getBlock")
              /\ obs' = [obs EXCEPT !.asked = Asked(TransferOrigin(idx), "eth")]
         ELSE \E second \in BlockOutcomes :
              LET block == GetBlockResult("base", tx.blockNum, second) IN
              /\ blockTimestamps' = IF second # "throw" /\ block # NoBlock
                                    THEN ObjBump(blockTimestamps, YearLabel(block))
                                    ELSE blockTimestamps
              /\ calls' = [calls EXCEPT !.getBlock = @ + 2]
              /\ obs' = [obs EXCEPT !.asked = Asked(TransferOrigin(idx), "eth")
                                                \cup Asked(TransferOrigin(idx), "base")]
    /\ idx' = idx + 1
    /\ pc' = IF idx = Len(allTransfers) THEN "baseNfts" ELSE "peak"
    /\ UNCHANGED << page, parked, inputVars, identityVars, overviewVars, analyticsVars, allTransfers,
                    contractInteractionsEth, contractInteractionsBase, curTransfers,
                    prompt, response >>

\* lines 177-180
ActivityPeak ==
    LET sortedYears == SortedEntries(blockTimestamps) IN
    IF Len(sortedYears) > 0
    THEN <<"the year ">> \o sortedYears[1].key
    ELSE Text("various periods of innovation")

\* lines 184-187
MainnetQuest ==
    LET sortedEthDapps == SortedEntries(contractInteractionsEth) IN
    IF Len(sortedEthDapps) > 0
    THEN <<"interacting with key protocols like ">> \o Slice(sortedEthDapps[1].key, 0, 6)
            \o <<"... on Ethereum Mainnet">>
    ELSE Text("exploring decentralized finance and digital collectibles")

\* lines 190-193
TopBaseDapp ==
    LET sortedBaseDapps == SortedEntries(contractInteractionsBase) IN
    IF Len(sortedBaseDapps) > 0
    THEN <<"a prominent dApp like ">> \o Slice(sortedBaseDapps[1].key, 0, 6) \o <<"... on Base">>
    ELSE Text("various emerging protocols")

\* lines 216-228
AiInputData ==
    [ walletAgeDays         |-> NumToStr(walletAgeDays),
      totalTransactions     |-> NumToStr(totalTransactions),
      activityPeak          |-> ActivityPeak,
      mainnetQuest          |-> MainnetQuest,
      gasSpentEth           |-> ToFixed2(totalTransactions),
      baseLaunchParticipant |-> baseLaunchParticipant,
      baseTransactions      |-> NumToStr(baseTransactions),
      topBaseDapp           |-> TopBaseDapp,
      notableBaseNft        |-> notableBaseNft ]

\* lines 177-193 and 215-252: derive the texts (they depend only on the
\* tallies, which the asset lookups in between leave alone), ask for the
\* story and answer; a throw of generateText reaches the outer catch
StoryRespond ==
    /\ pc = "generate"
    /\ route = "story"
    /\ prompt' = AiInputData
    /\ \E res \in GenerateOutcomes :
         /\ obs' = [obs EXCEPT !.generate = IF res.threw THEN "throw" ELSE "ok"]
         /\ response' =
              IF res.threw
              THEN ErrorResponse(500, Text("Failed to generate story: "))
              ELSE [ status    |-> 200,
                     ensName   |-> EnsNameOf(displayEnsName, resolvedWalletAddress),
                     storyText |-> res.value ]
    /\ calls' = Called("generateText")
    /\ pc' = "done"
    /\ UNCHANGED << page, parked, inputVars, identityVars, overviewVars, analyticsVars, storyVars,
                    curTransfers, idx >>

----------------------------------------------------------------------------
(* Specifications *)

Next ==
    \/ Validate
    \/ AnalyticsResolveIdentity
    \/ StoryResolveIdentity
    \/ AnalyticsFetchEth
    \/ AnalyticsProcessEth
    \/ AnalyticsFetchBase
    \/ AnalyticsProcessBase
    \/ AnalyticsBaseLaunch
    \/ StoryFetchEth
    \/ StoryFetchBase
    \/ StoryActivityPeak
    \/ FetchBaseNfts
    \/ FetchEthNfts
    \/ AnalyticsRespond
    \/ StoryRespond

Spec == Init /\ [][Next]_vars

\* transfer lists of a given length, newest block first
EthLive(n) == [i \in 1..n |-> IF i = 1 THEN Tx(3, ToA) ELSE Tx(2, Null)]
BaseLive(n) == [i \in 1..n |-> IF i = 1 THEN Tx(4, ToD) ELSE Tx(2, <<>>)]

\* accounts with every pair of list lengths up to MaxTransfers
LiveAccounts ==
    { Account(EthLive(n), BaseLive(m), PlainAccount.ethNfts, PlainAccount.baseNfts) :
        n, m \in 0..MaxTransfers }

\* requests whose run to the response is followed to its end: every input
\* and configuration, every pair of list lengths with flaky transfer and
\* block services, and one plain request against which every service is flaky
InitLive ==
    \/ InitRequest(Routes, RawInputs, BOOLEAN, {Clock}, {PlainAccount}, {{"names"}})
    \/ InitRequest(Routes, {HexInput}, {TRUE}, {Clock}, LiveAccounts, {{"transfers", "blocks"}})
    \/ InitRequest(Routes, {HexInput}, {TRUE}, {Clock}, {PlainAccount}, {Services})

\* every await settles: the external call returns or throws, and the
\* handler is resumed
FairSpec == InitLive /\ [][Next]_vars /\ WF_vars(Next)

----------------------------------------------------------------------------
(* Two requests in flight *)

\* the locals of the running request: every `let` and `const` of POST, with
\* the request body and what the chains hold about its address
Frame ==
    [ route |-> route, rawInput |-> rawInput, account |-> account, pc |-> pc,
      resolvedWalletAddress |-> resolvedWalletAddress, displayEnsName |-> displayEnsName,
      walletAgeDays |-> walletAgeDays, totalTransactions |-> totalTransactions,
      baseTransactions |-> baseTransactions,
      baseLaunchParticipant |-> baseLaunchParticipant, notableBaseNft |-> notableBaseNft,
      transactionCountsByMonth |-> transactionCountsByMonth,
      contractInteractions |-> contractInteractions,
      allTransfers |-> allTransfers, contractInteractionsEth |-> contractInteractionsEth,
      contractInteractionsBase |-> contractInteractionsBase,
      blockTimestamps |-> blockTimestamps,
      curTransfers |-> curTransfers, idx |-> idx, prompt |-> prompt, response |-> response,
      calls |-> calls, obs |-> obs ]

\* the counter kept in a module-level variable: both requests write it
ResumeSharingCounter(f) == totalTransactions

\* totalTransactions is declared inside POST (line 79): a resumed request
\* finds its own counter
ResumeCounter(f) == f.totalTransactions

\* the event loop leaves the running request at an await (or after its
\* response) and resumes the other one where it waited; each request finds
\* its own locals, the environment and the clock are common
Switch ==
    /\ parked # NoRequest
    /\ parked' = Frame
    /\ route' = parked.route
    /\ rawInput' = parked.rawInput
    /\ account' = parked.account
    /\ pc' = parked.pc
    /\ resolvedWalletAddress' = parked.resolvedWalletAddress
    /\ displayEnsName' = parked.displayEnsName
    /\ walletAgeDays' = parked.walletAgeDays
    /\ totalTransactions' = ResumeCounter(parked)
    /\ baseTransactions' = parked.baseTransactions
    /\ baseLaunchParticipant' = parked.baseLaunchParticipant
    /\ notableBaseNft' = parked.notableBaseNft
    /\ transactionCountsByMonth' = parked.transactionCountsByMonth
    /\ contractInteractions' = parked.contractInteractions
    /\ allTransfers' = parked.allTransfers
    /\ contractInteractionsEth' = parked.contractInteractionsEth
    /\ contractInteractionsBase' = parked.contractInteractionsBase
    /\ blockTimestamps' = parked.blockTimestamps
    /\ curTransfers' = parked.curTransfers
    /\ idx' = parked.idx
    /\ prompt' = parked.prompt
    /\ response' = parked.response
    /\ calls' = parked.calls
    /\ obs' = parked.obs
    /\ UNCHANGED << page, alchemyApiKey, googleApiKey, now, flaky >>

\* a second well-formed address
OtherHexInput == <<"D","e","A","d">> \o Rep("0", 32) \o <<"b","E","e","F">>

\* what the chains hold about the two addresses
PairAccounts ==
    { PlainAccount,
      Account(<<Tx(3, ToA), Tx(2, ToB)>>, <<Tx(4, ToD), Tx(2, ToA)>>,
              <<>>, <<Nft(Text("Base Punk"), Text("Base Coll"))>>),
      Account(<<>>, <<Tx(1, ToA)>>, <<>>, <<>>) }

\* two requests arrive together; the services answer each of them as they
\* would answer it alone
InitPair ==
    /\ InitLocals(Routes, {HexInput}, {TRUE}, {Clock}, PairAccounts, {{}})
    /\ \E r \in Routes, acct \in PairAccounts : parked = StartFrame(r, OtherHexInput, acct)
    /\ page = NoPage

NextPair == Next \/ Switch

SpecPair == InitPair /\ [][NextPair]_vars

\* the longest transfer list of the accounts explored for the ranking
MaxRanked == 4

\* accounts whose transfers name many counterparties: every Ethereum list,
\* and the Base lists that hold no block twice
RankedAccounts ==
    { Account(e, b, <<>>, <<>>) :
        e \in TransferLists(EthRankedPool, MaxRanked),
        b \in { l \in TransferLists(BaseRankedPool, MaxRanked) :
                 \A i \in 1..(Len(l) - 1) : l[i].blockNum > l[i + 1].blockNum } }

\* generate-analytics alone: every account history with flaky transfer and
\* block services at the clock readings of the month of the newest block and
\* with reliable services at the later readings, and the accounts with many
\* counterparties against reliable services
InitAnalytics ==
    \/ InitRequest({"analytics"}, {HexInput}, {TRUE}, FlakyClocks, TransferAccounts,
                   {{"transfers", "blocks"}})
    \/ InitRequest({"analytics"}, {HexInput}, {TRUE}, ChartClocks \ FlakyClocks, TransferAccounts,
                   {{}})
    \/ InitRequest({"analytics"}, {HexInput}, {TRUE}, {Clock}, RankedAccounts, {{}})

NextAnalytics ==
    \/ Validate
    \/ AnalyticsResolveIdentity
    \/ AnalyticsFetchEth
    \/ AnalyticsProcessEth
    \/ AnalyticsFetchBase
    \/ AnalyticsProcessBase
    \/ AnalyticsBaseLaunch
    \/ FetchBaseNfts
    \/ FetchEthNfts
    \/ AnalyticsRespond

SpecAnalytics == InitAnalytics /\ [][NextAnalytics]_vars

----------------------------------------------------------------------------
(* Properties *)

Done == pc = "done"

Success == response.status = 200

\* the aggregate handed to the text generator
AggregateBuilt == prompt # NoPrompt

DownstreamCalls ==
    calls.getAssetTransfers + calls.getBlock + calls.getNftsForOwner + calls.generateText

\* one network's transfer query threw and the other's returned
EthFailedBaseReturned == obs.ethFetch = "throw" /\ obs.baseFetch = "ok"
BaseFailedEthReturned == obs.baseFetch = "throw" /\ obs.ethFetch = "ok"

\* the number of transfers the answering network returned
ReturnedCount ==
    IF EthFailedBaseReturned THEN Len(account.base) ELSE Len(account.eth)

\* C1 as stated: when the transfer query of one network throws and the
\* other network returns n transfers, the request ends in a success
\* response and totalTransactions = n.
C1_AsStated ==
    (Done /\ (EthFailedBaseReturned \/ BaseFailedEthReturned))
        => (Success /\ totalTransactions = ReturnedCount)

\* C1 (amended): when the transfer query of one network throws and the
\* other network returns n transfers, in either assignment of the roles,
\* the failure is not surfaced: the aggregate is built with
\* totalTransactions = n and handed to the text generator, and the request
\* ends in a success response reporting n unless the text generation itself
\* throws.
C1_FailureIsolation ==
    (Done /\ (EthFailedBaseReturned \/ BaseFailedEthReturned))
        => /\ totalTransactions = ReturnedCount
           /\ AggregateBuilt
           /\ prompt.totalTransactions = NumToStr(ReturnedCount)
           /\ Success <=> obs.generate = "ok"
           /\ (Success /\ route = "analytics")
                => response.walletOverview.totalTransactions = NumToStr(ReturnedCount)

C1_Witness ==
    /\ Done
    /\ Success
    /\ EthFailedBaseReturned
    /\ Len(account.base) = MaxTransfers
    /\ totalTransactions = MaxTransfers

\* the input matches neither hex pattern and no forward strategy gave an address
NameUnresolved ==
    /\ ~hexRegex(rawInput)
    /\ ~plainHexRegex(rawInput)
    /\ obs.forward \in {"empty", "throw", "absent"}

\* C2: an input that matches neither hex pattern and for which every
\* forward resolution returns empty or throws ends the request with the
\* unresolvable-identity error, status 400, and no call to
\* getAssetTransfers, getBlock, getNftsForOwner or generateText is made.
C2_UnresolvableNoDownstream ==
    NameUnresolved
        => /\ Done
           /\ response = UnresolvableResponse
           /\ response.status = 400
           /\ calls.getAssetTransfers = 0
           /\ calls.getBlock = 0
           /\ calls.getNftsForOwner = 0
           /\ calls.generateText = 0

C2_Witness ==
    /\ NameUnresolved
    /\ Done
    /\ route = "story"
    /\ calls.resolveEnsAddress = 1
    /\ response.status = 400

\* C3 as stated: once identity resolution has succeeded the request never
\* returns an error; the only failure is the one at identity resolution.
C3_AsStated ==
    (Done /\ Truthy(resolvedWalletAddress)) => Success

\* C3 (amended): once identity resolution has succeeded, no combination of
\* failures of the transfer, block and ownership lookups makes the request
\* return an error: the aggregate is always completed and handed to the
\* text generator, and the request then fails only if the text generation
\* itself throws (status 500).
C3_DegradeDontFail ==
    (Done /\ Truthy(resolvedWalletAddress))
        => /\ AggregateBuilt
           /\ obs.generate \in {"ok", "throw"}
           /\ Success <=> obs.generate = "ok"
           /\ ~Success => response.status = 500

C3_Witness ==
    /\ Done
    /\ Success
    /\ obs.ethFetch = "throw"
    /\ obs.baseEarliest = "throw"
    /\ obs.baseNfts = "throw"
    /\ obs.ethNfts = "throw"

\* lower-case, 0x-prefixed, 40 hex digits
IsCanonicalAddress(a) ==
    /\ hexRegex(a)
    /\ \A i \in DOMAIN a : a[i] \notin Range(UpperChars)

\* C4: whenever identity resolution succeeds, by any of its three branches,
\* the address used for the downstream calls is a lower-case, 0x-prefixed,
\* 40-hex-digit string.
C4_CanonicalAddress ==
    (pc \notin {"validate", "resolve"} /\ Truthy(resolvedWalletAddress))
        => IsCanonicalAddress(resolvedWalletAddress)

\* a is s lower-cased, character by character
IsLowerCased(a, s) ==
    /\ Len(a) = Len(s)
    /\ \A i \in DOMAIN s : a[i] = ToLowerChar(s[i])

\* the identity resolution of a hex input has run
HexResolved == obs.lookup # "none"

\* C5: for an input matching the prefixed-hex pattern the resolved address
\* is the lower-cased input, and no forward name resolution is attempted.
C5_PrefixedHex ==
    hexRegex(rawInput)
        => /\ calls.resolveName = 0
           /\ calls.resolveEnsAddress = 0
           /\ HexResolved => IsLowerCased(resolvedWalletAddress, rawInput)

C5_Witness ==
    /\ hexRegex(rawInput)
    /\ \E i \in DOMAIN rawInput : rawInput[i] \in Range(UpperChars)
    /\ HexResolved
    /\ Done
    /\ Success

\* C6: for an input matching the unprefixed-hex pattern the resolved
\* address is "0x" followed by the lower-cased input.
C6_UnprefixedHex ==
    (plainHexRegex(rawInput) /\ HexResolved)
        => /\ Len(resolvedWalletAddress) = 42
           /\ SubSeq(resolvedWalletAddress, 1, 2) = <<"0", "x">>
           /\ IsLowerCased(SubSeq(resolvedWalletAddress, 3, 42), rawInput)

C6_Witness ==
    /\ plainHexRegex(rawInput)
    /\ \E i \in DOMAIN rawInput : rawInput[i] \in Range(UpperChars)
    /\ HexResolved
    /\ Done
    /\ Success

IsHexInput == hexRegex(rawInput) \/ plainHexRegex(rawInput)

\* C7: for a hex input the reverse lookup is not fatal: whether
\* lookupAddress returns a name, returns nothing or throws, the resolution
\* step leaves the same canonical address and goes on to the transfer
\* collection with no response sent; only the display name depends on the
\* outcome.
C7_ReverseLookupNonFatal ==
    [][ (pc = "resolve" /\ IsHexInput)
          => /\ pc' = "ethFetch"
             /\ response' = NoResponse
             /\ obs'.lookup \in {"name", "null", "throw"}
             /\ IsLowerCased(SliceLast(resolvedWalletAddress', 40), SliceLast(rawInput, 40))
             /\ SubSeq(resolvedWalletAddress', 1, 2) = <<"0", "x">>
             /\ Len(resolvedWalletAddress') = 42
             /\ (obs'.lookup = "name") <=> (displayEnsName' # Null) ]_vars

C7_Witness ==
    /\ IsHexInput
    /\ obs.lookup = "throw"
    /\ displayEnsName = Null
    /\ calls.getAssetTransfers = 2
    /\ Done
    /\ Success

MonthIndex(name) == CHOOSE m \in DOMAIN MonthShort : MonthShort[m] = name

RECURSIVE DecimalValue(_, _)
DecimalValue(digits, acc) ==
    IF digits = <<>> THEN acc
    ELSE DecimalValue(Tail(digits),
                      acc * 10 + (CHOOSE d \in 0..9 : DigitChars[d + 1] = Head(digits)))

\* the position of a "Mon YYYY" label on the calendar, in months
LabelOrdinal(label) ==
    DecimalValue(SubSeq(label, 3, Len(label)), 0) * 12 + MonthIndex(label[1])

\* C8: the transactionHistory of a generate-analytics response has exactly
\* 12 entries whatever was fetched and whatever lookups failed; every count
\* is a non-negative integer, a month under which no transfer was counted
\* has count 0, and the entries run from the oldest month to the newest.
C8_HistoryShape ==
    (route = "analytics" /\ Success)
        => LET h == response.transactionHistory IN
           /\ Len(h) = 12
           /\ \A k \in DOMAIN h :
                /\ h[k].count \in Nat
                /\ ~HasKey(transactionCountsByMonth, h[k].month) => h[k].count = 0
           /\ \A k \in 1..(Len(h) - 1) :
                LabelOrdinal(h[k].month) <= LabelOrdinal(h[k + 1].month)
           /\ h[Len(h)].month = MonthYearLabel(now)

C8_Witness ==
    /\ route = "analytics"
    /\ Success
    /\ obs.ethFetch = "throw"
    /\ \E k \in DOMAIN response.transactionHistory : response.transactionHistory[k].count > 0
    /\ \E k \in DOMAIN response.transactionHistory : response.transactionHistory[k].count = 0
    /\ totalTransactions > 1

\* every transfer of the account, Ethereum first
AccountTransfers == account.eth \o account.base

\* C9: the topDappInteractions of a generate-analytics response is sorted
\* non-increasing by count, has at most 5 entries, and holds no entry for a
\* transfer without counterparty (`to` null or empty): every entry carries
\* the shortened address of a counterparty of some transfer.
C9_RankingShape ==
    (route = "analytics" /\ Success)
        => LET top == response.topDappInteractions IN
           /\ Len(top) <= 5
           /\ \A k \in 1..(Len(top) - 1) : top[k].value >= top[k + 1].value
           /\ \A k \in DOMAIN top :
                /\ top[k].value >= 1
                /\ \E i \in DOMAIN AccountTransfers :
                     /\ Truthy(AccountTransfers[i].to)
                     /\ top[k].name = Slice(AccountTransfers[i].to, 0, 6) \o <<".", ".", ".">>
           /\ \A k \in DOMAIN contractInteractions : Truthy(contractInteractions[k].key)

C9_Witness ==
    /\ route = "analytics"
    /\ Success
    /\ Len(contractInteractions) > 5
    /\ Len(response.topDappInteractions) = 5
    /\ response.topDappInteractions[1].value > response.topDappInteractions[5].value
    /\ \E i \in DOMAIN AccountTransfers : ~Truthy(AccountTransfers[i].to)

\* the Base transfers gave no evidence of a launch-time transfer
NoBaseEvidence ==
    \/ obs.baseFetch = "throw"
    \/ obs.baseFetch = "ok" /\ account.base = <<>>
    \/ obs.baseEarliest \in {"null", "throw"}

\* C10: in both handlers, if Base returns an empty transfer list, or its
\* transfer query fails, or the block lookup for its earliest transfer
\* returns nothing or throws, then baseLaunchParticipant is false, in the
\* handler and in the aggregate it builds.
C10_NoEvidenceNoParticipation ==
    NoBaseEvidence
        => /\ baseLaunchParticipant = FALSE
           /\ AggregateBuilt => prompt.baseLaunchParticipant = FALSE
           /\ (Success /\ route = "analytics")
                => response.walletOverview.baseLaunchParticipant = FALSE

C10_Witness ==
    /\ Done
    /\ Success
    /\ obs.baseEarliest = "null"
    /\ account.base # <<>>
    /\ AnalyticsInLaunchWindow(BlockTime(ChainGetBlock("base", account.base[Len(account.base)].blockNum)))
    /\ baseLaunchParticipant = FALSE

----------------------------------------------------------------------------
(* Launch window and wallet age of generate-analytics *)

MinOf(S) == CHOOSE x \in S : \A y \in S : x <= y

\* the time the chain records for a block
ChainTime(net, blockNum) == BlockTime(ChainGetBlock(net, blockNum))

\* the smallest timestamp among the Base transfers of the account
EarliestBaseTime ==
    MinOf({ ChainTime("base", account.base[i].blockNum) : i \in DOMAIN account.base })

\* the Base transfers came back and the block of the earliest one was found
EarliestBaseResolved ==
    obs.baseFetch = "ok" /\ account.base # <<>> /\ obs.baseEarliest = "ok"

\* C11: in generate-analytics baseLaunchParticipant is true exactly when the
\* timestamp t resolved for the earliest Base transfer (the smallest
\* timestamp of the Base list) satisfies launch <= t < launch + 30 days,
\* launch being 2023-08-09T00:00:00Z: closed at launch, open at the end.
C11_LaunchWindowExact ==
    route = "analytics" =>
        ( baseLaunchParticipant <=>
            /\ EarliestBaseResolved
            /\ baseLaunchDate <= EarliestBaseTime
            /\ EarliestBaseTime < baseLaunchDate + LaunchWindow )

\* a finished request whose earliest Base transfer lies exactly on the launch
\* instant and is flagged, the list holding a later transfer as well
C11_Witness ==
    /\ route = "analytics"
    /\ Done
    /\ Success
    /\ Len(account.base) >= 2
    /\ EarliestBaseResolved
    /\ EarliestBaseTime = baseLaunchDate
    /\ baseLaunchParticipant

\* the timestamps of the transfers whose block lookup succeeded
ResolvedTimes ==
    { ChainTime(obs.blocks[i].net, obs.blocks[i].blockNum) :
        i \in { j \in DOMAIN obs.blocks : obs.blocks[j].found } }

\* C12: the walletAgeDays generate-analytics reports equals floor((now -
\* tmin) / 1 day), tmin being the smallest timestamp among the transfers of
\* both networks whose block lookup succeeded (0 when none succeeded),
\* whatever the processing order and whichever network holds the oldest
\* transfer.
C12_AgeFromOldestResolved ==
    (route = "analytics" /\ Done) =>
        LET times == ResolvedTimes IN
        /\ walletAgeDays = IF times = {} THEN 0 ELSE (now - MinOf(times)) \div DaySeconds
        /\ Success => response.walletOverview.walletAgeDays = NumToStr(walletAgeDays)

\* a finished request whose oldest resolved transfer is on Base, processed
\* after Ethereum transfers that resolved too, one lookup having failed
C12_Witness ==
    /\ route = "analytics"
    /\ Done
    /\ Success
    /\ \E i, j, k \in DOMAIN obs.blocks :
         /\ obs.blocks[i].net = "eth" /\ obs.blocks[i].found
         /\ obs.blocks[j].net = "base" /\ obs.blocks[j].found
         /\ ChainTime("base", obs.blocks[j].blockNum) = MinOf(ResolvedTimes)
         /\ ChainTime("eth", obs.blocks[i].blockNum) > MinOf(ResolvedTimes)
         /\ ~obs.blocks[k].found
    /\ walletAgeDays > 0

----------------------------------------------------------------------------
(* Transfers whose block could not be resolved *)

IsFound(lookup) == lookup.found

\* the timestamps of the transfers whose block lookup succeeded, in the
\* order the transfers were processed
FoundTimes ==
    LET found == SelectSeq(obs.blocks, IsFound)
    IN  [ i \in DOMAIN found |-> ChainTime(found[i].net, found[i].blockNum) ]

SomeLookupFailed == \E i \in DOMAIN obs.blocks : ~obs.blocks[i].found

RECURSIVE MonthCountsOver(_, _)
\* the month tally of a run that sees exactly these block times
MonthCountsOver(counts, times) ==
    IF times = <<>> THEN counts
    ELSE MonthCountsOver(CountMonth(counts, Head(times)), Tail(times))

RECURSIVE AgeOver(_, _)
\* the wallet age of a run that sees exactly these block times
AgeOver(age, times) ==
    IF times = <<>> THEN age
    ELSE AgeOver(OlderAge(age, Head(times)), Tail(times))

\* the month tally and the age the request ends with are those of the run
\* in which the transfers without a block are not there at all
UnresolvedContributeNothing ==
    Done =>
        LET times == FoundTimes IN
        /\ transactionCountsByMonth = MonthCountsOver(<<>>, times)
        /\ walletAgeDays = AgeOver(0, times)

\* C13 as stated: a transfer whose block lookup returns nothing or throws
\* contributes to neither the month histogram nor the wallet age, the
\* counts and the age are those derived from the other transfers alone,
\* and the request still succeeds.
C13_AsStated ==
    route = "analytics" =>
        /\ UnresolvedContributeNothing
        /\ (Done /\ SomeLookupFailed => Success)

\* C13, amended: a transfer whose block lookup returns nothing or throws
\* contributes to neither the month histogram nor the wallet age, the
\* counts and the age are those derived from the other transfers alone,
\* and the request goes on to the text generator: it succeeds unless the
\* generateText call itself throws, which ends it with status 500.
C13_UnresolvedBlockIgnored ==
    route = "analytics" =>
        /\ UnresolvedContributeNothing
        /\ (Done /\ SomeLookupFailed =>
               /\ AggregateBuilt
               /\ obs.generate \in {"ok", "throw"}
               /\ Success <=> obs.generate = "ok"
               /\ ~Success => response.status = 500)

\* a successful request in which one lookup failed and another transfer
\* was counted in the histogram and dated the wallet
C13_Witness ==
    /\ route = "analytics"
    /\ Done
    /\ Success
    /\ SomeLookupFailed
    /\ Len(FoundTimes) >= 1
    /\ Len(transactionCountsByMonth) >= 1
    /\ walletAgeDays > 0

----------------------------------------------------------------------------
(* The notable asset *)

\* both ownership lookups have been made
AssetsLookedUp == obs.baseNfts # "none" /\ obs.ethNfts # "none"

\* C14: the notable asset is the first asset owned on Base if the Base
\* lookup succeeded and is non-empty; otherwise the first asset owned on
\* Ethereum if that lookup succeeded and is non-empty; otherwise the
\* placeholder "a unique digital artifact".  A lookup that throws counts as
\* empty, and an Ethereum result never replaces a value obtained from Base.
C14_OrderedFallback ==
    AssetsLookedUp =>
        notableBaseNft =
            IF obs.baseNfts = "owned" THEN NftDisplay(account.baseNfts[1])
            ELSE IF obs.ethNfts = "owned" THEN NftDisplay(account.ethNfts[1])
            ELSE DefaultNotableNft

\* the fallback as the code implements it: the Ethereum asset is taken
\* whenever the value held after the Base lookup reads like the placeholder
C14_FallbackOnPlaceholderText ==
    AssetsLookedUp =>
        LET afterBase == IF obs.baseNfts = "owned"
                         THEN NftDisplay(account.baseNfts[1]) ELSE DefaultNotableNft
        IN  notableBaseNft =
                IF obs.ethNfts = "owned" /\ afterBase = DefaultNotableNft
                THEN NftDisplay(account.ethNfts[1]) ELSE afterBase

----------------------------------------------------------------------------
(* One pass through the stages, one response *)

\* the stages in the order of the source text: validation, identity
\* resolution, transfer collection, derivation, assembly, response
StageRank(p) ==
    CASE p = "validate"    -> 1
      [] p = "resolve"     -> 2
      [] p = "ethFetch"    -> 3
      [] p = "ethProcess"  -> 4
      [] p = "baseFetch"   -> 5
      [] p = "baseProcess" -> 6
      [] p = "baseLaunch"  -> 7
      [] p = "peak"        -> 8
      [] p = "baseNfts"    -> 9
      [] p = "ethNfts"     -> 10
      [] p = "generate"    -> 11
      [] p = "done"        -> 12

LoopStages == {"ethProcess", "baseProcess", "peak"}

Responded == response # NoResponse

\* a step never goes back to an earlier stage; it stays in a stage only
\* inside a loop over a transfer list, moving to the next transfer; and a
\* response, once given, is the last thing the handler does
StageStep ==
    /\ StageRank(pc') >= StageRank(pc)
    /\ pc' = pc => pc \in LoopStages /\ idx' = idx + 1 /\ idx' <= Len(curTransfers) + Len(allTransfers)
    /\ ~Responded
    /\ Responded' <=> pc' = "done"

\* no stage's call is repeated: one identity resolution, one transfer query
\* and one ownership query per network, one text generation
StagesAtMostOnce ==
    /\ calls.lookupAddress + calls.resolveName <= 1
    /\ calls.resolveEnsAddress <= calls.resolveName
    /\ calls.getAssetTransfers <= 2
    /\ calls.getNftsForOwner <= 2
    /\ calls.generateText <= 1
    /\ calls.getBlock <= 2 * (Len(account.eth) + Len(account.base)) + 2

----------------------------------------------------------------------------
(* Order of the block lookups of generate-analytics *)

\* the transfers a network's query handed to the request
Fetched(net) ==
    IF (IF net = "eth" THEN obs.ethFetch ELSE obs.baseFetch) = "ok" THEN account[net] ELSE <<>>

\* the lookups in the order the code issues them: the Ethereum list from
\* its first element to its last, then the Base list
IssuedLookups ==
    LET e == Fetched("eth")
        b == Fetched("base")
    IN  [ i \in 1..(Len(e) + Len(b)) |->
            IF i <= Len(e)
            THEN [net |-> "eth", blockNum |-> e[i].blockNum]
            ELSE [net |-> "base", blockNum |-> b[i - Len(e)].blockNum] ]

\* the lookups complete in the order they were issued
CompletedInIssueOrder ==
    LET issued == IssuedLookups IN
    /\ Len(obs.blocks) <= Len(issued)
    /\ \A i \in DOMAIN obs.blocks :
         /\ obs.blocks[i].net = issued[i].net
         /\ obs.blocks[i].blockNum = issued[i].blockNum

\* the transfers of the trailing year, each with its month label
LabelledInWindow(times) ==
    { <<i, MonthYearLabel(times[i])>> : i \in { j \in DOMAIN times : times[j] >= oneYearAgo } }

\* the number of labelled transfers that carry a label
CountedUnder(labelled, label) == Cardinality({ p \in labelled : p[2] = label })

\* C16: in generate-analytics, for fixed transfer lists and fixed results
\* of the lookups, transactionHistory and topDappInteractions do not depend
\* on the order in which lookups complete: the lookups are awaited one by
\* one, so they complete in the order of the lists, and both outputs are
\* functions of the lists and of the lookup results alone.
C16_OutputsIndependentOfCompletion ==
    route = "analytics" =>
        /\ CompletedInIssueOrder
        /\ Success =>
             LET h == response.transactionHistory
                 labelled == LabelledInWindow(FoundTimes)
             IN
             /\ Len(obs.blocks) = Len(IssuedLookups)
             /\ \A k \in DOMAIN h :
                  /\ h[k].month = MonthYearLabel(SetMonthBack(now, HistoryMonths - k))
                  /\ h[k].count = CountedUnder(labelled, h[k].month)
             /\ response.topDappInteractions =
                  SortedDapps(CountInteractions(<<>>, Fetched("eth") \o Fetched("base")))

\* a successful request with lookups on both networks, one of them failed,
\* two transfers counted under one month and several counterparties ranked
C16_Witness ==
    /\ route = "analytics"
    /\ Success
    /\ Len(Fetched("eth")) >= 1
    /\ Len(Fetched("base")) >= 2
    /\ SomeLookupFailed
    /\ \E k \in DOMAIN response.transactionHistory : response.transactionHistory[k].count >= 2
    /\ Len(response.topDappInteractions) >= 2

----------------------------------------------------------------------------
(* Two requests handled concurrently *)

\* the block times of a request's transfers, Ethereum list first
SoloTimes(acct) ==
    [ i \in 1..(Len(acct.eth) + Len(acct.base)) |->
        IF i <= Len(acct.eth)
        THEN ChainTime("eth", acct.eth[i].blockNum)
        ELSE ChainTime("base", acct.base[i - Len(acct.eth)].blockNum) ]

\* the notable asset of a request served alone by reliable services
SoloNotable(acct) ==
    LET afterBase == IF acct.baseNfts # <<>> THEN NftDisplay(acct.baseNfts[1])
                     ELSE DefaultNotableNft
    IN  IF acct.ethNfts # <<>> /\ afterBase = DefaultNotableNft
        THEN NftDisplay(acct.ethNfts[1]) ELSE afterBase

\* the canonical address of a hex input
SoloAddress(input) ==
    IF hexRegex(input) THEN ToLowerCase(input) ELSE WithPrefix(ToLowerCase(input))

SoloEnsName == CHOOSE n \in ReverseNames : TRUE

SoloText == CHOOSE t \in GeneratedTexts : TRUE

\* the response generate-analytics gives a request served alone
SoloAnalyticsResponse(acct) ==
    LET total == Len(acct.eth) + Len(acct.base)
        last  == acct.base[Len(acct.base)]
    IN  [ status              |-> 200,
          ensName             |-> SoloEnsName,
          keyInsights         |-> SoloText,
          walletOverview      |->
              [ walletAgeDays         |-> NumToStr(AgeOver(0, SoloTimes(acct))),
                totalTransactions     |-> NumToStr(total),
                gasSpentEth           |-> ToFixed4(total),
                baseTransactions      |-> NumToStr(Len(acct.base)),
                baseLaunchParticipant |->
                    (acct.base # <<>> /\ AnalyticsInLaunchWindow(ChainTime("base", last.blockNum))),
                notableBaseNft        |-> SoloNotable(acct) ],
          transactionHistory  |-> FormattedTransactionHistory(MonthCountsOver(<<>>, SoloTimes(acct))),
          topDappInteractions |-> SortedDapps(CountInteractions(<<>>, acct.eth \o acct.base)) ]

RECURSIVE SoloYears(_, _)
\* the per-year tally generate-story builds from the blocks the Ethereum
\* client knows
SoloYears(tally, transfers) ==
    IF transfers = <<>> THEN tally
    ELSE LET block == ChainGetBlock("eth", Head(transfers).blockNum)
         IN  SoloYears(IF block # NoBlock THEN ObjBump(tally, YearLabel(block)) ELSE tally,
                       Tail(transfers))

\* what generate-story computes for a request served alone
SoloStory(f) ==
    LET acct  == f.account
        total == Len(acct.eth) + Len(acct.base)
    IN  /\ f.response = [status |-> 200, ensName |-> SoloEnsName, storyText |-> SoloText]
        /\ f.prompt.totalTransactions = NumToStr(total)
        /\ f.prompt.baseTransactions = NumToStr(Len(acct.base))
        /\ f.prompt.gasSpentEth = ToFixed2(total)
        /\ f.prompt.walletAgeDays =
              NumToStr(IF acct.eth = <<>> THEN 0
                       ELSE AgeInDays(ChainTime("eth", acct.eth[Len(acct.eth)].blockNum)))
        /\ f.prompt.baseLaunchParticipant =
              (acct.base # <<>>
                 /\ StoryInLaunchWindow(ChainTime("base", acct.base[Len(acct.base)].blockNum)))
        /\ f.prompt.notableBaseNft = SoloNotable(acct)
        /\ f.contractInteractionsEth = CountInteractions(<<>>, acct.eth)
        /\ f.contractInteractionsBase = CountInteractions(<<>>, acct.base)
        /\ f.blockTimestamps = SoloYears(<<>>, acct.eth \o acct.base)

\* a finished request holds what it would hold had it been served alone
RunsAsAlone(f) ==
    f.pc = "done" =>
        /\ f.resolvedWalletAddress = SoloAddress(f.rawInput)
        /\ f.totalTransactions = Len(f.account.eth) + Len(f.account.base)
        /\ IF f.route = "analytics"
           THEN /\ f.response = SoloAnalyticsResponse(f.account)
                /\ f.contractInteractions = CountInteractions(<<>>, f.account.eth \o f.account.base)
                /\ f.transactionCountsByMonth = MonthCountsOver(<<>>, SoloTimes(f.account))
           ELSE SoloStory(f)

\* C17: two requests handled concurrently, their asynchronous steps
\* interleaved in any order, each give the response they give when served
\* alone with the same external responses: no counter, histogram, tally or
\* resolved identity of one request is read or written by the other.
C17_RequestsIsolated ==
    parked # NoRequest => RunsAsAlone(Frame) /\ RunsAsAlone(parked)

\* one request has answered while the other, for another address, is
\* halfway through counting its own transfers
C17_Witness ==
    /\ parked # NoRequest
    /\ pc = "done"
    /\ response.status = 200
    /\ totalTransactions >= 2
    /\ parked.pc \in {"ethProcess", "baseFetch", "baseProcess", "peak"}
    /\ parked.totalTransactions >= 1
    /\ parked.totalTransactions # totalTransactions
    /\ parked.resolvedWalletAddress # resolvedWalletAddress

----------------------------------------------------------------------------
(* Forward resolution of generate-story *)

\* the forward resolution of a name has run
ForwardResolved == route = "story" /\ obs.forward # "none"

\* resolveName did not yield an address: it threw, or it returned nothing
\* and the chain went on
FirstStrategyFailed == calls.resolveEnsAddress = 1 \/ obs.forward # "address"

\* C18: in generate-story the forward resolution of a name tries its
\* strategies in sequence until one yields a non-empty address: when
\* resolveName fails, by returning empty or by throwing, resolveEnsAddress
\* (where the SDK has it) is still tried, and a non-empty result from it
\* resolves the identity with the display name equal to the lower-cased
\* input.
C18_SecondStrategyTried ==
    ForwardResolved =>
        /\ calls.resolveName = 1
        /\ FirstStrategyFailed => calls.resolveEnsAddress = 1 \/ obs.forward = "absent"
        /\ obs.forward = "address" =>
             /\ Truthy(resolvedWalletAddress)
             /\ displayEnsName = [i \in DOMAIN rawInput |-> ToLowerChar(rawInput[i])]

\* what the code does: the second strategy is tried only when resolveName
\* returned nothing; a throw of resolveName ends the resolution
C18_SecondStrategyOnEmptyOnly ==
    ForwardResolved =>
        /\ calls.resolveName = 1
        /\ calls.resolveEnsAddress = 0 /\ obs.forward = "throw" =>
             /\ resolvedWalletAddress = Null
             /\ response = UnresolvableResponse
        /\ obs.forward = "address" =>
             /\ Truthy(resolvedWalletAddress)
             /\ displayEnsName = [i \in DOMAIN rawInput |-> ToLowerChar(rawInput[i])]

----------------------------------------------------------------------------
(* The months of the chart and the trailing window *)

\* the labels of the chart are consecutive calendar months
ConsecutiveMonths(h) ==
    \A k \in 1..(Len(h) - 1) : LabelOrdinal(h[k + 1].month) = LabelOrdinal(h[k].month) + 1

\* C19: for every current date, the 29th to the 31st included, the 12
\* labels of transactionHistory are 12 distinct consecutive calendar months
\* ending with the current month: no month repeated, none skipped.
C19_DistinctConsecutiveMonths ==
    (route = "analytics" /\ Success)
        => LET h == response.transactionHistory IN
           /\ Len(h) = HistoryMonths
           /\ h[Len(h)].month = MonthYearLabel(now)
           /\ ConsecutiveMonths(h)

\* what the code gives: the months are consecutive when the day of the
\* month exists in each of the eleven months before
C19_ConsecutiveWhenDayExists ==
    (route = "analytics" /\ Success /\ DateFields(now).day <= 28)
        => LET h == response.transactionHistory IN
           /\ Len(h) = HistoryMonths
           /\ h[Len(h)].month = MonthYearLabel(now)
           /\ ConsecutiveMonths(h)

RECURSIVE SumCounts(_)
SumCounts(h) == IF h = <<>> THEN 0 ELSE Head(h).count + SumCounts(Tail(h))

\* the resolved transfers that pass `txDate >= oneYearAgo`
InTrailingWindow == { i \in DOMAIN FoundTimes : FoundTimes[i] >= oneYearAgo }

\* C20: in generate-analytics every transfer whose block lookup succeeded
\* and whose timestamp is not older than one year before now is counted in
\* exactly one bucket of the returned transactionHistory: the 12 counts add
\* up to the number of such transfers, and an older transfer is counted in
\* no bucket.
C20_WindowCountedOnce ==
    (route = "analytics" /\ Success)
        => SumCounts(response.transactionHistory) = Cardinality(InTrailingWindow)

----------------------------------------------------------------------------
(* Launch window, wallet age and tallies of generate-story *)

\* C21: in generate-story baseLaunchParticipant is true only if the
\* timestamp of the earliest Base transfer was resolved and lies at or after
\* the launch reference 2023-08-09T00:00:00Z and less than 30 days after it;
\* a timestamp before the launch reference yields false.
C21_StoryLaunchWindow ==
    (route = "story" /\ baseLaunchParticipant)
        => /\ EarliestBaseResolved
           /\ baseLaunchDate <= EarliestBaseTime
           /\ EarliestBaseTime < baseLaunchDate + LaunchWindow

\* what the code gives: the flag is raised exactly when the resolved
\* timestamp lies less than 30 days after the launch reference, before it
\* included
C21_UpperEndOnly ==
    route = "story" =>
        ( baseLaunchParticipant <=>
            /\ EarliestBaseResolved
            /\ EarliestBaseTime < baseLaunchDate + LaunchWindow )

\* the timestamps the chain records for the transfers a network returned
FetchedTimes(net) ==
    { ChainTime(net, Fetched(net)[i].blockNum) : i \in DOMAIN Fetched(net) }

\* the earliest Base transfer was resolved and no Ethereum transfer that
\* came back is older: the minimum over both networks is on Base
OldestResolvedOnBase ==
    /\ EarliestBaseResolved
    /\ \A t \in FetchedTimes("eth") : EarliestBaseTime < t

\* C22: in generate-story walletAgeDays is computed from the minimum
\* timestamp resolved across the transfers of both networks: an account
\* whose oldest transfer is on Base, or that has transfers only on Base,
\* gets the age of that Base transfer.
C22_AgeFromGlobalMinimum ==
    (route = "story" /\ OldestResolvedOnBase)
        => walletAgeDays = AgeInDays(EarliestBaseTime)

\* what the code gives: the age comes from the last transfer of the
\* Ethereum list alone, and stays 0 without one
C22_AgeFromLastEthereum ==
    route = "story" =>
        \/ walletAgeDays = 0
        \/ /\ Fetched("eth") # <<>>
           /\ walletAgeDays =
                AgeInDays(ChainTime("eth", Fetched("eth")[Len(Fetched("eth"))].blockNum))

\* the counterparty tally of every transfer a network returned
FullTally(net) == CountInteractions(<<>>, Fetched(net))

\* the counts of generate-story are those of the lists that came back
StoryCountsKept ==
    /\ obs.ethFetch # "none" /\ obs.baseFetch = "none"
         => totalTransactions = Len(Fetched("eth"))
    /\ obs.baseFetch # "none"
         => /\ totalTransactions = Len(Fetched("eth")) + Len(Fetched("base"))
            /\ baseTransactions = Len(Fetched("base"))

\* C23: in generate-story a failed block lookup loses only the value
\* derived from that block: whether the lookup for the earliest transfer of
\* a network throws or returns nothing, that network's transfer count, its
\* contribution to totalTransactions and its counterparty tally
\* (mainnetQuest for Ethereum, topBaseDapp for Base) are those of the list
\* the network returned.
C23_FailedLookupKeepsTallies ==
    route = "story" =>
        /\ StoryCountsKept
        /\ obs.ethFetch # "none" => contractInteractionsEth = FullTally("eth")
        /\ obs.baseFetch # "none" => contractInteractionsBase = FullTally("base")

\* what the code gives: the counts and the Ethereum tally are kept, and the
\* Base tally is empty when the lookup for the earliest Base transfer threw
C23_BaseTallyLostOnThrow ==
    route = "story" =>
        /\ StoryCountsKept
        /\ obs.ethFetch # "none" => contractInteractionsEth = FullTally("eth")
        /\ obs.baseFetch # "none" =>
             contractInteractionsBase =
                IF obs.baseEarliest = "throw" THEN <<>> ELSE FullTally("base")

----------------------------------------------------------------------------
(* The client a block reference is sent to *)

\* C24: in both route handlers the block of a transfer is always looked up
\* on the network that produced the transfer: a Base transfer's block
\* reference is never sent to the Ethereum client, and an Ethereum
\* transfer's block reference is never sent to the Base client.
C24_LookupOnOwnNetwork ==
    \A a \in obs.asked : a.client = a.origin

\* what the code gives: generate-analytics asks the network of the transfer
C24_AnalyticsOwnNetwork ==
    route = "analytics" => \A a \in obs.asked : a.client = a.origin

----------------------------------------------------------------------------
(* Ranking of the counterparties of generate-analytics *)

\* the transfers in the order the handler meets them: the Ethereum list,
\* then the Base list
InputSequence == Fetched("eth") \o Fetched("base")

\* the counterparties named by the transfers
Counterparties == { InputSequence[i].to : i \in { j \in DOMAIN InputSequence :
                                                    Truthy(InputSequence[j].to) } }

\* the number of transfers addressed to a counterparty
AddressedTo(a) == Cardinality({ i \in DOMAIN InputSequence : InputSequence[i].to = a })

\* the place of the first transfer addressed to a counterparty
FirstEncounter(a) == MinOf({ i \in DOMAIN InputSequence : InputSequence[i].to = a })

\* the place of a counterparty when the greater count goes first and, among
\* equal counts, the earlier first encounter
RankOf(a) ==
    1 + Cardinality({ b \in Counterparties :
                        \/ AddressedTo(b) > AddressedTo(a)
                        \/ /\ AddressedTo(b) = AddressedTo(a)
                           /\ FirstEncounter(b) < FirstEncounter(a) })

\* C25: in generate-analytics the count of each ranked counterparty equals
\* the number of transfers across both networks addressed to it, and among
\* counterparties with equal counts the one first encountered in the input
\* sequence (Ethereum transfers in order, then Base transfers in order) is
\* ranked first, including at the cut-off between the 5th and 6th entry.
C25_CountsAndStableTies ==
    (route = "analytics" /\ Success)
        => LET top == response.topDappInteractions IN
           /\ Len(top) = IF Cardinality(Counterparties) < TopDapps
                         THEN Cardinality(Counterparties) ELSE TopDapps
           /\ \A a \in Counterparties :
                RankOf(a) <= TopDapps
                    => top[RankOf(a)] = [name  |-> Slice(a, 0, 6) \o <<".", ".", ".">>,
                                         value |-> AddressedTo(a)]

\* six counterparties, one of them addressed on both networks, and a tie
\* between the 5th and the 6th
C25_Witness ==
    /\ route = "analytics"
    /\ Success
    /\ \E a \in Counterparties :
         /\ \E i \in DOMAIN Fetched("eth") : Fetched("eth")[i].to = a
         /\ \E i \in DOMAIN Fetched("base") : Fetched("base")[i].to = a
         /\ AddressedTo(a) >= 2
    /\ \E a, b \in Counterparties :
         /\ RankOf(a) = TopDapps
         /\ RankOf(b) = TopDapps + 1
         /\ AddressedTo(a) = AddressedTo(b)

----------------------------------------------------------------------------
(* The pages: onchain-story/page.tsx, onchain-analytics/page.tsx and the
   analytics page with a report state (src/unnamed/part_000) *)

PageKinds == {"story", "analytics", "report"}

\* the longest queue of setTimeout callbacks explored
MaxTimers == 2

RECURSIVE TrimStart(_)
TrimStart(s) == IF s # <<>> /\ Head(s) = " " THEN TrimStart(Tail(s)) ELSE s

RECURSIVE TrimEnd(_)
TrimEnd(s) == IF s # <<>> /\ s[Len(s)] = " " THEN TrimEnd(SubSeq(s, 1, Len(s) - 1)) ELSE s

\* String.prototype.trim
Trim(s) == TrimEnd(TrimStart(s))

\* the suffixes of ensRegex
EnsSuffixes ==
    { <<".","e","t","h">>, <<".","x","y","z">>, <<".","l","u","x","e">>,
      <<".","k","r","e","d">>, <<".","a","r","t">>, <<".","n","f","t">>,
      <<".","c","r","y","p","t","o">>, <<".","d","a","o">>,
      <<".","b","l","o","c","k","c","h","a","i","n">> }

\* /\.eth$|\.xyz$|...|\.blockchain$/i.test(s)
ensRegex(s) ==
    \E suffix \in EnsSuffixes :
        Len(s) >= Len(suffix) /\ ToLowerCase(SliceLast(s, Len(suffix))) = suffix

\* isValidInput of the three pages
isValidInput(input) ==
    LET trimmedInput == Trim(input) IN
    hexRegex(trimmedInput) \/ plainHexRegex(trimmedInput) \/ ensRegex(trimmedInput)

\* what a user can type: nothing, names (bare, padded with blanks, upper
\* case, with a suffix that is not at the end), addresses, other text
PageInputs ==
    { <<>>,
      <<"v","b",".","e","t","h">>,
      <<" ","v","b",".","e","t","h"," ">>,
      <<"V","B",".","D","A","O">>,
      <<"v","b",".","e","t","h","x">>,
      HexInput,
      OtherHexInput,
      <<"h","e","l","l","o">>,
      <<" ">> }

DefaultEnsName == <<"v","0",".","e","t","h">>

DefaultStoryText == Text("Your journey onchain began with a single transaction, ...")

DefaultTransactionHash == Text("0x123abc...")

\* "0x" + Math.random().toString(16).substring(2, 12): ten hex digits, or
\* fewer down to none when the expansion of the number is short
RandomHashes ==
    { Prefix0x \o <<"9","f","3","c","0","a","7","7","d","1">>,
      Prefix0x \o <<"8">>,
      Prefix0x }

\* the walletOverview useState of onchain-analytics/page.tsx starts with
InitialOverview ==
    [ walletAgeDays |-> NumToStr(0), totalTransactions |-> NumToStr(0),
      gasSpentEth |-> ToFixed4(0), baseLaunchParticipant |-> FALSE,
      baseTransactions |-> NumToStr(0), notableBaseNft |-> Text("N/A") ]

\* the walletOverview useState of part_000 starts with null
NullOverview == [isNull |-> TRUE]

\* the useState initial values of a page
InitialState(kind) ==
    IF kind = "story"
    THEN [ appState |-> "initial", userInput |-> <<>>, ensName |-> DefaultEnsName,
           storyText |-> DefaultStoryText, transactionHash |-> DefaultTransactionHash ]
    ELSE IF kind = "analytics"
    THEN [ appState |-> "initial", userInput |-> <<>>, ensName |-> <<>>,
           keyInsights |-> <<>>, walletOverview |-> InitialOverview,
           transactionHistory |-> <<>>, topDappInteractions |-> <<>> ]
    ELSE [ appState |-> "initial", userInput |-> <<>>, ensName |-> <<>>,
           keyInsights |-> <<>>, walletOverview |-> NullOverview,
           transactionHistory |-> <<>>, topDappInteractions |-> <<>>,
           errorMessage |-> <<>> ]

\* no fetch is in flight
NoFetch == [pending |-> FALSE]

\* a page as it is first rendered: its state, the fetch in flight, the
\* setTimeout callbacks waiting, the last toast shown, and whether
\* handleStartOver has run
OpenPage(kind) ==
    [ kind |-> kind, state |-> InitialState(kind), fetch |-> NoFetch,
      timers |-> 0, toast |-> Null, restarted |-> FALSE ]

\* what a fetch of a route can come to: a success response, an error
\* response with a JSON body, an error response whose body is no JSON
\* (response.json() rejects), or a rejection (the network failed)
FetchResults(kind) ==
    { [settles |-> "response", status |-> 200, json |-> TRUE,
       body |-> IF kind = "story"
                THEN [status |-> 200, ensName |-> SoloEnsName, storyText |-> SoloText]
                ELSE SoloAnalyticsResponse(PlainAccount)],
      [settles |-> "response", status |-> 400, json |-> TRUE, body |-> UnresolvableResponse],
      [settles |-> "response", status |-> 500, json |-> FALSE, body |-> [status |-> 500]],
      [settles |-> "rejection", status |-> 0, json |-> FALSE, body |-> [status |-> 0]] }

\* response.ok
ResponseOk(result) == result.settles = "response" /\ result.status \in 200..299

\* error.message in the catch: `err.error || fallback` of the thrown Error,
\* or the message of the rejection
ErrorMessage(result, fallback) ==
    IF result.settles = "rejection" THEN Text("Failed to fetch")
    ELSE IF result.json /\ "error" \in DOMAIN result.body /\ Truthy(result.body.error)
    THEN result.body.error
    ELSE fallback

COLORS == << Text("#0088FE"), Text("#00C49F"), Text("#FFBB28"),
             Text("#FF8042"), Text("#AF19FF"), Text("#FF19AF") >>

\* data.topDappInteractions.map((d, i) => ({ ...d, color: COLORS[i % COLORS.length] }))
WithColors(dapps) ==
    [ i \in DOMAIN dapps |->
        [name |-> dapps[i].name, value |-> dapps[i].value,
         color |-> COLORS[((i - 1) % Len(COLORS)) + 1]] ]

\* everything that is not the page
requestVars ==
    << route, rawInput, alchemyApiKey, googleApiKey, now, account, flaky, pc,
       resolvedWalletAddress, displayEnsName, walletAgeDays, totalTransactions,
       baseTransactions, baseLaunchParticipant, notableBaseNft,
       transactionCountsByMonth, contractInteractions, allTransfers,
       contractInteractionsEth, contractInteractionsBase, blockTimestamps,
       curTransfers, idx, prompt, response, calls, obs, parked >>

\* onChange of the input, rendered in state "initial"
setUserInput ==
    /\ page.kind \in PageKinds
    /\ page.state.appState = "initial"
    /\ \E v \in PageInputs :
         /\ v # page.state.userInput
         /\ page' = [page EXCEPT !.state.userInput = v]
    /\ UNCHANGED requestVars

\* the Generate button is rendered in state "initial" and disabled unless
\* isValidInput(userInput)
GenerateEnabled == page.state.appState = "initial" /\ isValidInput(page.state.userInput)

\* handleGenerateStory up to its await (page.tsx lines 33-40)
handleGenerateStory ==
    /\ page.kind = "story"
    /\ GenerateEnabled
    /\ \E result \in FetchResults("story") :
         page' = [page EXCEPT !.state.appState = "loading",
                              !.fetch = [pending |-> TRUE,
                                         body |-> Trim(page.state.userInput),
                                         outcome |-> result]]
    /\ UNCHANGED requestVars

\* the catch that forgets setAppState
StoryAfterFailureStuck == "loading"

\* page.tsx line 58: the catch of handleGenerateStory
StoryAfterFailure == "initial"

\* handleGenerateStory once the fetch settled (lines 42-59)
handleGenerateStorySettled ==
    /\ page.kind = "story"
    /\ page.fetch.pending
    /\ LET result == page.fetch.outcome IN
       IF ResponseOk(result)
       THEN page' = [page EXCEPT !.state.ensName = result.body.ensName,
                                 !.state.storyText = result.body.storyText,
                                 !.state.appState = "story",
                                 !.fetch = NoFetch]
       ELSE page' = [page EXCEPT !.toast = ErrorMessage(result, Text("Failed to fetch story")),
                                 !.state.appState = StoryAfterFailure,
                                 !.fetch = NoFetch]
    /\ UNCHANGED requestVars

\* handleMint (lines 62-67), the button being rendered in state "story"
handleMint ==
    /\ page.kind = "story"
    /\ page.state.appState = "story"
    /\ page.timers < MaxTimers
    /\ page' = [page EXCEPT !.state.appState = "success", !.timers = @ + 1]
    /\ UNCHANGED requestVars

\* the callback of setTimeout (lines 64-66) runs, whatever the page shows
MintTimeout ==
    /\ page.kind = "story"
    /\ page.timers > 0
    /\ \E hash \in RandomHashes :
         page' = [page EXCEPT !.state.transactionHash = hash, !.timers = @ - 1]
    /\ UNCHANGED requestVars

\* handleStartOver of the story page (lines 69-77), the button being
\* rendered in state "success"
handleStartOver ==
    /\ page.kind = "story"
    /\ page.state.appState = "success"
    /\ page' = [page EXCEPT !.state = InitialState("story"), !.restarted = TRUE]
    /\ UNCHANGED requestVars

\* handleGenerateAnalytics up to its await (page.tsx lines 58-65, part_000
\* lines 75-83, which also clears errorMessage)
handleGenerateAnalytics ==
    /\ page.kind \in {"analytics", "report"}
    /\ GenerateEnabled
    /\ \E result \in FetchResults(page.kind) :
         LET started == [page EXCEPT !.state.appState = "loading",
                                     !.fetch = [pending |-> TRUE,
                                                body |-> Trim(page.state.userInput),
                                                outcome |-> result]]
         IN  page' = IF page.kind = "report"
                     THEN [started EXCEPT !.state.errorMessage = <<>>]
                     ELSE started
    /\ UNCHANGED requestVars

\* handleGenerateAnalytics once the fetch settled (page.tsx lines 67-89,
\* part_000 lines 85-106)
handleGenerateAnalyticsSettled ==
    /\ page.kind \in {"analytics", "report"}
    /\ page.fetch.pending
    /\ LET result  == page.fetch.outcome
           message == ErrorMessage(result, Text("Failed to fetch analytics"))
       IN
       IF ResponseOk(result)
       THEN page' = [page EXCEPT
                        !.state.ensName = result.body.ensName,
                        !.state.keyInsights = result.body.keyInsights,
                        !.state.walletOverview = result.body.walletOverview,
                        !.state.transactionHistory = result.body.transactionHistory,
                        !.state.topDappInteractions =
                            IF page.kind = "analytics"
                            THEN WithColors(result.body.topDappInteractions)
                            ELSE result.body.topDappInteractions,
                        !.state.appState = "analytics",
                        !.fetch = NoFetch]
       ELSE LET failed == [page EXCEPT !.toast = message,
                                       !.state.appState = "error",
                                       !.fetch = NoFetch]
            IN  page' = IF page.kind = "report"
                        THEN [failed EXCEPT !.state.errorMessage = message]
                        ELSE failed
    /\ UNCHANGED requestVars

\* the body of state "analytics" with its two buttons is rendered: part_000
\* renders it only with a walletOverview (line 196)
AnalyticsRendered ==
    /\ page.state.appState = "analytics"
    /\ page.kind = "report" => page.state.walletOverview # NullOverview

\* handleDownloadReport, the button being rendered in state "analytics":
\* a toast in page.tsx (lines 92-97), a state of its own in part_000
\* (lines 109-112)
handleDownloadReport ==
    /\ page.kind \in {"analytics", "report"}
    /\ AnalyticsRendered
    /\ page' = IF page.kind = "report"
               THEN [page EXCEPT !.state.appState = "download-unimplemented"]
               ELSE [page EXCEPT !.toast =
                        Text("Report download functionality is not yet implemented.")]
    /\ UNCHANGED requestVars

\* a reset that leaves the insights of the last request in place
ResetKeepingInsights(kind, state) ==
    [InitialState(kind) EXCEPT !.keyInsights = state.keyInsights]

\* the setters of handleStartOver (page.tsx lines 99-114, part_000 lines
\* 114-123), every one called with the value its useState started with
ResetState(kind, state) == InitialState(kind)

\* the states in which an analytics page renders the Start Over button
StartOverStates(kind) ==
    IF kind = "report" THEN {"analytics", "error", "download-unimplemented"}
    ELSE {"analytics", "error"}

\* handleStartOver of the analytics pages
handleStartOverAnalytics ==
    /\ page.kind \in {"analytics", "report"}
    /\ page.state.appState \in StartOverStates(page.kind)
    /\ page.state.appState = "analytics" => AnalyticsRendered
    /\ page' = [page EXCEPT !.state = ResetState(page.kind, page.state), !.restarted = TRUE]
    /\ UNCHANGED requestVars

\* a page is opened; no request is served by this process
InitPages ==
    /\ InitLocals({"none"}, {Null}, {TRUE}, {Clock}, {PlainAccount}, {{}})
    /\ parked = NoRequest
    /\ page \in { OpenPage(kind) : kind \in PageKinds }

NextPages ==
    \/ setUserInput
    \/ handleGenerateStory
    \/ handleGenerateStorySettled
    \/ handleMint
    \/ MintTimeout
    \/ handleStartOver
    \/ handleGenerateAnalytics
    \/ handleGenerateAnalyticsSettled
    \/ handleDownloadReport
    \/ handleStartOverAnalytics

SpecPages == InitPages /\ [][NextPages]_vars

\* a fetch in flight settles: it resolves or it rejects
FairSpecPages ==
    /\ SpecPages
    /\ WF_vars(handleGenerateStorySettled)
    /\ WF_vars(handleGenerateAnalyticsSettled)

----------------------------------------------------------------------------
(* Mint and Start Over on the story page *)

\* C26: on the story page, whenever appState is "initial" after Start Over,
\* transactionHash has its default placeholder value, however Mint (which
\* schedules a delayed write of transactionHash) and Start Over interleave.
C26_InitialHasDefaultHash ==
    (page.kind = "story" /\ page.restarted /\ page.state.appState = "initial")
        => page.state.transactionHash = DefaultTransactionHash

\* what the code gives: right after Start Over the placeholder is back, and
\* it stays until a callback of setTimeout that was still waiting runs
C26_DefaultUntilTimeout ==
    [][ /\ (page.kind = "story" /\ handleStartOver)
            => page'.state.transactionHash = DefaultTransactionHash
        /\ (page.kind = "story"
            /\ page.state.transactionHash = DefaultTransactionHash
            /\ page'.state.transactionHash # DefaultTransactionHash)
            => (page.timers > 0 /\ page'.timers = page.timers - 1) ]_vars

----------------------------------------------------------------------------
(* The life of a generate request on the pages *)

\* the fetch in flight comes to a successful response
FetchSucceeds ==
    /\ page.fetch.pending
    /\ page.fetch.outcome.settles = "response"
    /\ page.fetch.outcome.status = 200

\* the state a page shows once the fetch settled
C27_Outcome(kind, ok) ==
    IF kind = "story" THEN (IF ok THEN "story" ELSE "initial")
    ELSE (IF ok THEN "analytics" ELSE "error")

C27_ResultStates == {"story", "analytics", "error"}

C27_Step ==
    LET before == page.state.appState
        after  == page'.state.appState
    IN  /\ (before # "loading" /\ after = "loading")
            => /\ before = "initial"
               /\ isValidInput(page.state.userInput)
               /\ ~page.fetch.pending
               /\ page'.fetch.pending
        /\ (before = "loading" /\ (after # "loading" \/ page'.fetch # page.fetch))
            => /\ page.fetch.pending
               /\ ~page'.fetch.pending
               /\ after = C27_Outcome(page.kind, FetchSucceeds)
        /\ (after \in C27_ResultStates /\ after # before)
            => before = "loading"

\* C27: on each page a generate request starts only from "initial" with an
\* input isValidInput accepts and moves the page to "loading"; from
\* "loading" the page eventually leaves, once the fetch settles, to exactly
\* one state: "analytics" (success) or "error" (failure) on the analytics
\* pages, "story" (success) or back to "initial" (failure) on the story
\* page; a result state is entered from "loading" only.
C27_GenerateLifecycle ==
    /\ [][C27_Step]_vars
    /\ [](page.state.appState = "loading" => page.fetch.pending)
    /\ \A kind \in PageKinds : \A ok \in BOOLEAN :
         (page.kind = kind /\ page.state.appState = "loading" /\ FetchSucceeds = ok)
            ~> (page.state.appState = C27_Outcome(kind, ok) /\ ~page.fetch.pending)

\* a story page is back in "initial" after a response that was no JSON
C27_Witness ==
    /\ page.kind = "story"
    /\ page.state.appState = "initial"
    /\ isValidInput(page.state.userInput)
    /\ page.toast = Text("Failed to fetch story")

----------------------------------------------------------------------------
(* Start Over on the analytics pages *)

C28_AnalyticsPages == {"analytics", "report"}

\* the states Start Over is offered in
C28_From(kind) ==
    IF kind = "report" THEN {"analytics", "error", "download-unimplemented"}
    ELSE {"analytics", "error"}

\* the fields that hold the result of a request
C28_NothingShown ==
    LET state == page.state
        start == InitialState(page.kind)
    IN  /\ state.ensName = start.ensName
        /\ state.keyInsights = start.keyInsights
        /\ state.walletOverview = start.walletOverview
        /\ state.transactionHistory = start.transactionHistory
        /\ state.topDappInteractions = start.topDappInteractions
        /\ page.kind = "report" => state.errorMessage = start.errorMessage

\* C28: on the analytics pages Start Over, from any of the states analytics,
\* error and download-unimplemented, returns the page to "initial" with
\* every field equal to its initial value, so that nothing of the result of
\* a previous request is there when the next request is made.
C28_StartOverResets ==
    /\ [][ (page.kind \in C28_AnalyticsPages /\ handleStartOverAnalytics)
              => page'.state = InitialState(page.kind) ]_vars
    /\ [][ (page.kind \in C28_AnalyticsPages
            /\ page.state.appState \in C28_From(page.kind)
            /\ page'.state.appState = "initial")
              => page'.state = InitialState(page.kind) ]_vars
    /\ [](( page.kind \in C28_AnalyticsPages
            /\ page.state.appState \in C28_From(page.kind))
              => ENABLED handleStartOverAnalytics)
    /\ [](( page.kind \in C28_AnalyticsPages
            /\ page.state.appState \in {"initial", "loading"})
              => C28_NothingShown)

\* the next request is under way on a page that was started over
C28_Witness ==
    /\ page.kind = "report"
    /\ page.restarted
    /\ page.state.appState = "loading"
    /\ page.toast # Null

----------------------------------------------------------------------------
(* Requests rejected by the validation of the two route handlers *)

C29_InputMissing == ~Truthy(rawInput)

C29_KeyAbsent == ~alchemyApiKey \/ ~googleApiKey

\* no external lookup was made: no name, transfer, block or ownership
\* lookup and no text generation
C29_NothingAsked == calls = NoCalls /\ obs.asked = {}

\* C29 as stated: a request with a missing or empty walletAddress is
\* rejected with status 400, and a request made while a required API key is
\* absent is rejected with status 500, both before any external lookup.
C29_AsStated ==
    (route # "none" /\ Done)
        => /\ C29_InputMissing => (response.status = 400 /\ C29_NothingAsked)
           /\ C29_KeyAbsent => (response.status = 500 /\ C29_NothingAsked)

\* C29: in both route handlers a request with a missing or empty
\* walletAddress is rejected with status 400, whatever the keys; a request
\* with a walletAddress made while a required API key is absent is
\* rejected with status 500; in both cases no external lookup is made at
\* any point of the request.
C29_RejectedBeforeLookups ==
    /\ (route # "none" /\ (C29_InputMissing \/ C29_KeyAbsent)) => C29_NothingAsked
    /\ (route # "none" /\ Done)
        => /\ C29_InputMissing => response.status = 400
           /\ (~C29_InputMissing /\ C29_KeyAbsent) => response.status = 500

\* a request that names a wallet was turned down for a missing key
C29_Witness ==
    /\ route # "none"
    /\ Done
    /\ ~C29_InputMissing
    /\ C29_KeyAbsent
    /\ response.status = 500
    /\ C29_NothingAsked

----------------------------------------------------------------------------
(* The name a success response carries *)

\* the input is an address, with or without its prefix
C30_HexInput == hexRegex(rawInput) \/ plainHexRegex(rawInput)

\* first 6 and last 4 characters of the canonical address, which has 42
C30_Shortened(address) ==
    SubSeq(address, 1, 6) \o <<".", ".", ".">> \o SubSeq(address, 39, 42)

\* C30: every success response carries a non-empty ensName: the name the
\* reverse lookup gave for a hex input, the lower-cased input for a
\* resolved name, and otherwise (the reverse lookup gave nothing or threw)
\* the first 6 and last 4 characters of the canonical address around
\* "..."; it is never empty and never null.
C30_NameAlwaysPresent ==
    (route # "none" /\ Done /\ Success)
        => LET name == response.ensName IN
           /\ name # Null
           /\ name # <<>>
           /\ (C30_HexInput /\ obs.lookup = "name") => name \in ReverseNames
           /\ (C30_HexInput /\ obs.lookup \in {"null", "throw"})
                 => /\ Len(resolvedWalletAddress) = 42
                    /\ name = C30_Shortened(resolvedWalletAddress)
                    /\ Len(name) = 13
           /\ ~C30_HexInput => /\ obs.lookup = "none"
                               /\ name = ToLowerCase(rawInput)
           /\ obs.lookup \in {"none", "name", "null", "throw"}

\* a success response after a reverse lookup that threw
C30_Witness ==
    /\ route # "none"
    /\ Done
    /\ Success
    /\ C30_HexInput
    /\ obs.lookup = "throw"
    /\ response.ensName = C30_Shortened(resolvedWalletAddress)

====
